---- MODULE Spec2Model ----
(***************************************************************************)
(* A model of ZebecCardEvmService.purchaseCardWithUsdc                     *)
(* (src/src/services.ts) and of the helpers it uses (src/src/utils.ts,     *)
(* src/src/types.ts).  One invocation is a sequential process; every await *)
(* of the source is one step, taken together with the synchronous code     *)
(* that follows it up to the next await.  Remote calls (order service,     *)
(* chain node) answer nondeterministically from small sets.                *)
(*                                                                         *)
(* Units.  Decimal amounts (amount, quote.totalPrice, ...) are held as     *)
(* integer counts of thousandths.  Instants are milliseconds since the     *)
(* epoch, held as [day, ms] (whole UTC days, milliseconds into the day)    *)
(* because present-day millisecond counts exceed the checker's integers.   *)
(***************************************************************************)
EXTENDS Integers, Sequences, FiniteSets, TLC

(* ------------------------------ bounds --------------------------------- *)

\* quote.totalPrice ranges over 1..MaxPrice thousandths
MaxPrice == 2
\* on-chain quantities (balance, allowance, limits, totals) range over 0..MaxUnits
MaxUnits == 3
\* the calendar window holds DaySpan + 1 consecutive UTC days
DaySpan == 8
\* clock readings and expiry instants vary by 0..MaxMs milliseconds
MaxMs == 1

(* ------------------------- program constants --------------------------- *)

\* services.ts:329  quote.expiresIn - 20000 < Date.now()
ExpiryMarginMs == 20000
\* services.ts:444  let delay = 1000
InitialDelay == 1000
\* variant of the retry budget: one more attempt
maxRetriesPlusOne == 5 + 1

\* services.ts:445  const maxRetries = 5
maxRetries == 5

(* --------------------------- time and dates ---------------------------- *)

MsPerDay == 24 * 60 * 60 * 1000
SecPerDay == 24 * 60 * 60

\* 2025-12-24 (a Wednesday), as days since 1970-01-01
FirstDay == 20000 + 446
Days == FirstDay..(FirstDay + DaySpan)
\* the invocation starts on 2025-12-31
StartDay == FirstDay + 7

Instant(d, m) == [day |-> d, ms |-> m]

\* a - k milliseconds, for 0 <= k < MsPerDay
MinusMs(a, k) ==
    IF a.ms >= k THEN Instant(a.day, a.ms - k)
    ELSE Instant(a.day - 1, a.ms + MsPerDay - k)

\* a < b on instants
Before(a, b) == a.day < b.day \/ (a.day = b.day /\ a.ms < b.ms)

\* new Date(Number(unixInRecord * 1000n)): seconds since the epoch to an instant
DateOfUnix(sec) == Instant(sec \div SecPerDay, (sec % SecPerDay) * 1000)

\* The proleptic Gregorian date of a day count: <<year, month 1..12, day of month>>
CivilFromDays(days) ==
    LET z   == days + 719468
        era == z \div 146097
        doe == z - era * 146097
        yoe == (doe - (doe \div 1460) + (doe \div 36524) - (doe \div 146096)) \div 365
        doy == doe - (365 * yoe + (yoe \div 4) - (yoe \div 100))
        mp  == (5 * doy + 2) \div 153
        d   == doy - ((153 * mp + 2) \div 5) + 1
        m   == IF mp < 10 THEN mp + 3 ELSE mp - 9
        y   == yoe + era * 400 + (IF m <= 2 THEN 1 ELSE 0)
    IN  <<y, m, d>>

\* Date.prototype.getUTCDay: 0 = Sunday; 1970-01-01 was a Thursday
getUTCDay(t) == (t.day + 4) % 7
\* Date.prototype.getUTCDate: the day of the month
getUTCDate(t) == CivilFromDays(t.day)[3]
\* Date.prototype.getUTCMonth: 0 = January
getUTCMonth(t) == CivilFromDays(t.day)[2] - 1
getUTCFullYear(t) == CivilFromDays(t.day)[1]

\* utils.ts areDatesOfSameDay, as written: it compares getUTCDay (day of week)
areDatesOfSameDay(date1, date2) ==
    /\ getUTCDay(date1) = getUTCDay(date2)
    /\ getUTCMonth(date1) = getUTCMonth(date2)
    /\ getUTCFullYear(date1) = getUTCFullYear(date2)

(* ------------------------- pure helper functions ----------------------- *)

RECURSIVE Pow10(_)
Pow10(n) == IF n = 0 THEN 1 ELSE 10 * Pow10(n - 1)

RECURSIVE Pow2(_)
Pow2(n) == IF n = 0 THEN 1 ELSE 2 * Pow2(n - 1)

\* variant of the normalisation that cuts the third decimal off
formatAmountTruncated(amount) == (amount \div 10) * 10

\* utils.ts formatAmount: Number(Number(amount).toFixed(2)), on thousandths.
\* The inputs of the model never lie on a rounding tie.
formatAmount(amount) == ((amount + 5) \div 10) * 10

\* String.prototype.toLowerCase on the token symbols of the model
toLowerCase(s) ==
    CASE s = "USDC" -> "usdc"
      [] s = "Usdc" -> "usdc"
      [] s = "USDT" -> "usdt"
      [] OTHER -> s

\* a string of n letters
RECURSIVE Rep(_)
Rep(n) == IF n = 0 THEN "" ELSE "a" \o Rep(n - 1)

\* variant of the upper length test that excludes the limit itself
hasMaxLenExclusive(value, len) == Len(value) < len

\* utils.ts hasMinLen, hasMaxLen, hasLen
hasMinLen(value, len) == Len(value) >= len
hasMaxLen(value, len) == Len(value) <= len
hasLen(value, min, max) ==
    IF max /= 0 THEN hasMinLen(value, min) /\ hasMaxLen(value, max) ELSE hasMinLen(value, min)

\* utils.ts isAlphaNumeric: the verdict of /^[a-zA-Z0-9]+$/ on the ids of the model,
\* which are runs of letters except for "ab_1"
isAlphaNumeric(value) == value /= "" /\ value /= "ab_1"

\* the addresses of the model made of n letters before "@gmail.com"
LetterAddresses == {Rep(n) \o "@gmail.com" : n \in 1..80}

\* utils.ts isEmailValid: the verdict of
\* /^[a-zA-Z0-9._+-]+@[a-zA-Z0-9.-]+\.[a-zA-Z]{2,10}$/ on the addresses of the model
isEmailValid(value) ==
    CASE value = "john@gmail.com" -> TRUE
      [] value \in LetterAddresses -> TRUE
      [] value = "john@gmail" -> FALSE
      [] value = "john gmail.com" -> FALSE
      [] OTHER -> FALSE

\* utils.ts hashSHA256 on the addresses of the model: distinct inputs, distinct digests
hashSHA256(input) == <<"sha256", input>>

\* The fractional digits of (thousandths p).toString(): trailing zeros are not printed
FractionDigits(p) ==
    IF p % 1000 = 0 THEN 0 ELSE IF p % 100 = 0 THEN 1 ELSE IF p % 10 = 0 THEN 2 ELSE 3

\* ethers.parseUnits(p.toString(), decimals) throws on more fractional digits
\* than decimals
parseUnitsThrows(p, decimals) == FractionDigits(p) > decimals

\* ethers.parseUnits(p.toString(), decimals): the base units of p thousandths
parseUnits(p, decimals) == (p * Pow10(decimals)) \div 1000

\* ethers.formatUnits(value, decimals): the decimal numeral value / 10^decimals
formatUnits(value, decimals) == [units |-> value, decimals |-> decimals]

\* (thousandths p).toString(), as a decimal numeral
numberToString(p) == [units |-> p, decimals |-> 3]

\* Two decimal numerals denote the same number
SameNumber(a, b) ==
    IF a.decimals >= b.decimals
    THEN a.units = b.units * Pow10(a.decimals - b.decimals)
    ELSE b.units = a.units * Pow10(b.decimals - a.decimals)

(* ------------------------------ input sets ----------------------------- *)

Silver == [id |-> "silver-1", type |-> "silver", availableCurrencies |-> {"USD"}]
Carbon == [id |-> "carbon-1", type |-> "carbon", availableCurrencies |-> {"USD", "EUR"}]
NoProgram == [id |-> "", type |-> "", availableCurrencies |-> {}]

\* availablePrograms of a fetched catalog
Catalogs == {<<>>, <<Silver>>, <<Silver, Carbon>>}

\* variant of the lookup that takes the first program whatever its id
findAny(programs, id) == IF programs = <<>> THEN NoProgram ELSE Head(programs)

\* Array.prototype.find((p) => p.id === id): the first match, or undefined
RECURSIVE find(_, _)
find(programs, id) ==
    IF programs = <<>> THEN NoProgram
    ELSE IF Head(programs).id = id THEN Head(programs)
    ELSE find(Tail(programs), id)

Amounts == {1004, 1006}
AmountsRequested == {1000}
Tokens == {"USDC", "USDT"}
Currencies == {"USD", "EUR"}
TotalPrices == 1..MaxPrice
ProgramIds == {"silver-1", "carbon-1"}
Emails == {"john@gmail.com", "john@gmail"}
GasLimits == {"unset", "caller"}
ExpiryValues ==
    {Instant(StartDay, ExpiryMarginMs + m) : m \in 0..MaxMs} \cup {Instant(StartDay + 1, 0)}

Quotes ==
    [token : Tokens, amountRequested : AmountsRequested, expiresIn : ExpiryValues,
     targetCurrency : Currencies, totalPrice : TotalPrices, outputAmount : {1000}]

CountryCodes == {"NPL", "USA"}
Recipients == [emailAddress : Emails, countryCode : CountryCodes]

Params ==
    [amount : Amounts, quote : Quotes, cardProgramId : ProgramIds,
     recipient : Recipients, overrides : [gasLimit : GasLimits]]

\* Date.now() / new Date(): any instant of the model not before the last reading
ClockReadings(c) ==
    {Instant(c.day, m) : m \in c.ms..MaxMs}
        \cup {Instant(d, 0) : d \in {x \in Days : x > c.day}}

\* token decimals the chain may report
TokenDecimals == {2, 6}

\* base-unit quantities the chain may report for a token of the given decimals
Units(decimals) ==
    {k * (IF decimals >= 3 THEN Pow10(decimals - 3) ELSE 1) : k \in 0..MaxUnits}

\* card configurations the chain may report: 0 < min <= max, max below the largest
\* quantity, and a positive daily limit
CardConfigs(decimals) ==
    {c \in [minCardAmount : Units(decimals), maxCardAmount : Units(decimals),
            dailyCardBuyLimit : Units(decimals)] :
        /\ 0 < c.minCardAmount
        /\ c.minCardAmount <= c.maxCardAmount
        /\ \E u \in Units(decimals) : c.maxCardAmount < u
        /\ 0 < c.dailyCardBuyLimit}

CardPurchaseInfos(decimals) ==
    [unixInRecord : {d * SecPerDay : d \in Days}, totalCardBoughtPerDay : Units(decimals)]

Receipts == {[hash |-> "0xtx", blockHash |-> "0xblock"]}

(* -------------------------------- state -------------------------------- *)

VARIABLES
    params,   \* the arguments of the invocation
    pc,       \* where the invocation stands
    loc,      \* the local variables: a local enters when it is assigned and leaves
              \* at the first step after its last use in the source
    clock,    \* the last wall-clock reading
    log,      \* the remote calls and timer waits made so far, in order
    error,    \* the error the invocation threw
    result,   \* the value the invocation returned
    chain,    \* the account's state on the chain, where the model follows it
              \* (two concurrent invocations); elsewhere the node answers freely
    service   \* the fields of the service instance the invocation runs on, where
              \* the model follows them (purchaseCardWithUsdc)

vars == <<params, pc, loc, clock, log, error, result, chain, service>>

NoError == [name |-> "none"]
NoResult == [receipt |-> "none"]
NotFollowed == [followed |-> FALSE]

\* no service instance: a static method, or the constructor at work
NoService == [sandbox |-> "none"]

\* README (utils.ts:104-314): the service of the example, constructed for Sepolia
\* with sandbox on; services.ts:254, 261, 263 assign these fields
ExampleService ==
    [sandbox    |-> TRUE,
     apiService |-> [apiUrl |-> "CARD_API_URL.Sandbox", sandbox |-> TRUE],
     chainId    |-> 11155111]

Has(k) == k \in DOMAIN loc
Put(f, k, v) == (k :> v) @@ f
Drop(f, keys) == [x \in DOMAIN f \ keys |-> f[x]]

Call(op, arg, res) == [op |-> op, arg |-> arg, res |-> res]

\* the error object a failing remote call throws: one per call
RemoteError(op, seq) == [name |-> "RemoteError", op |-> op, seq |-> seq]

Init ==
    /\ params \in Params
    /\ pc = "ping"
    /\ loc = <<>>
    /\ clock = Instant(StartDay, 0)
    /\ log = <<>>
    /\ error = NoError
    /\ result = NoResult
    /\ chain = NotFollowed
    /\ service = ExampleService

\* throw e: the invocation ends with the error e
Throw(e) ==
    /\ pc' = "error"
    /\ error' = e

(* ------------------- the checks of purchaseCardWithUsdc ---------------- *)

\* services.ts:311  if (!cardProgram)
ProgramNotSupported(cardProgram) == cardProgram = NoProgram

\* services.ts:321  quote.token.toLowerCase() !== "usdc"
QuoteNotForUsdc(quote) == toLowerCase(quote.token) /= "usdc"

\* services.ts:325  quote.amountRequested !== formatAmount(params.amount)
AmountMismatch(quote, amount) == quote.amountRequested /= formatAmount(amount)

\* services.ts:329  quote.expiresIn - 20000 < Date.now()
QuoteExpired(quote, now) == Before(MinusMs(quote.expiresIn, ExpiryMarginMs), now)

\* variant of the currency test that rejects only a program without currencies
CurrencyListEmpty(cardProgram, quote) == cardProgram.availableCurrencies = {}

\* services.ts:333  !cardProgram.availableCurrencies.some((c) => c === quote.targetCurrency)
CurrencyNotAvailable(cardProgram, quote) ==
    ~(\E c \in cardProgram.availableCurrencies : c = quote.targetCurrency)

\* variant of the balance test with its operands exchanged
NotEnoughBalanceSwapped(parsedAmount, usdcBalance) == usdcBalance > parsedAmount

\* variant of the balance test that also rejects an exact balance
NotEnoughBalanceOrEqual(parsedAmount, usdcBalance) == parsedAmount >= usdcBalance

\* services.ts:345  parsedAmount > usdcBalance
NotEnoughBalance(parsedAmount, usdcBalance) == parsedAmount > usdcBalance

\* variant of the range test that also rejects an amount equal to the minimum
AmountOutOfRangeExclusive(parsedAmount, cardConfig) ==
    parsedAmount <= cardConfig.minCardAmount \/ parsedAmount > cardConfig.maxCardAmount

\* services.ts:356  parsedAmount < minRange || parsedAmount > maxRange
AmountOutOfRange(parsedAmount, cardConfig) ==
    parsedAmount < cardConfig.minCardAmount \/ parsedAmount > cardConfig.maxCardAmount

\* services.ts:367-372  the purchases of the day, this purchase included
cardPurchaseOfDay(today, cardPurchaseInfo, parsedAmount) ==
    IF areDatesOfSameDay(today, DateOfUnix(cardPurchaseInfo.unixInRecord))
    THEN cardPurchaseInfo.totalCardBoughtPerDay + parsedAmount
    ELSE parsedAmount

\* services.ts:374  cardPurchaseOfDay > cardConfig.dailyCardBuyLimit
DailyLimitExceeded(purchaseOfDay, cardConfig) == purchaseOfDay > cardConfig.dailyCardBuyLimit

\* variant of the allowance test that also approves when the allowance is exact
NeedsApprovalOrEqual(allowance, parsedAmount) == allowance <= parsedAmount

\* services.ts:386  allowance < parsedAmount
NeedsApproval(allowance, parsedAmount) == allowance < parsedAmount

(* ------------------------------- actions ------------------------------- *)

\* what makes GET /ping fail: an axios error (no connection, an error status) or
\* any other exception
PingFailures == {"axios error", "other error"}

\* What a diagnostic statement, if (this.sandbox) console.debug(...), can do to
\* the invocation: nothing when sandbox is off; when it is on, its arguments are
\* evaluated, and reading a property of null or undefined without optional
\* chaining throws a TypeError.  reads is the set of property reads of the
\* statement, each <<receiver, chaining>>.  The printed text is not part of the state.
PropertyReadThrows(receiver, chaining) == receiver = "nullish" /\ chaining = "."
DebugThrows(sandbox, reads) ==
    sandbox /\ \E r \in reads : PropertyReadThrows(r[1], r[2])
TypeError == [name |-> "TypeError", message |-> "Cannot read properties of null"]

\* what a failing request throws: an axios error with or without a response, or
\* something else
Thrown == [axios : {TRUE}, response : {"object", "nullish"}]
              \cup [axios : {FALSE}, response : {"nullish"}]

\* services.ts:103-110, 195-202, 460-470: the reads of the catch blocks' diagnostics:
\* e.cause or error.message, and e.response?.data, for an axios error; e itself otherwise
CatchReads(e) == IF e.axios THEN {<<"object", ".">>, <<e.response, "?.">>} ELSE {}

\* variant of the liveness check that lets the underlying failure through
PingRethrows ==
    /\ pc = "ping"
    /\ \/ /\ log' = Append(log, Call("ping", <<>>, "ok"))
          /\ pc' = "fetchPrograms"
          /\ UNCHANGED error
       \/ \E cause \in PingFailures :
            /\ log' = Append(log, [op |-> "ping", arg |-> <<>>, res |-> "fail", cause |-> cause])
            /\ Throw([name |-> "Error", message |-> cause])
    /\ UNCHANGED <<service, chain, params, loc, clock, result>>

\* services.ts:301 and ZebecCardAPIService.ping (99-114): any failure of GET /ping
\* is caught and replaced by the one "Card service is down" error
PingIn(sandbox) ==
    /\ pc = "ping"
    /\ \/ /\ log' = Append(log, Call("ping", <<>>, "ok"))
          /\ pc' = "fetchPrograms"
          /\ UNCHANGED error
       \/ \E cause \in PingFailures, e \in Thrown :
            /\ e.axios = (cause = "axios error")
            /\ log' = Append(log, [op |-> "ping", arg |-> <<>>, res |-> "fail", cause |-> cause])
            /\ IF DebugThrows(sandbox, CatchReads(e))
               THEN Throw(TypeError)
               ELSE Throw([name |-> "Error", message |-> "Card service is down. Please try again later."])
    /\ UNCHANGED <<service, chain, params, loc, clock, result>>

Ping == PingIn(service.sandbox)

\* variant of the validation that tests the target currency before the expiry
FetchProgramsCurrencyFirst(sandbox) ==
    /\ pc = "fetchPrograms"
    /\ \/ \E e \in Thrown :
            /\ log' = Append(log, Call("fetchZebecCardPrograms", params.recipient.countryCode, "fail"))
            /\ IF DebugThrows(sandbox, CatchReads(e))
               THEN Throw(TypeError)
               ELSE Throw(RemoteError("fetchZebecCardPrograms", Len(log) + 1))
            /\ UNCHANGED <<loc, clock>>
       \/ \E availablePrograms \in Catalogs, now \in ClockReadings(clock) :
            LET quote == params.quote
                cardProgram == find(availablePrograms, params.cardProgramId)
                fetched == Put(loc, "cardProgramDetails", availablePrograms)
            IN  /\ log' = Append(log, Call("fetchZebecCardPrograms", params.recipient.countryCode, "ok"))
                /\ IF ProgramNotSupported(cardProgram)
                   THEN /\ Throw([name |-> "Error", message |-> "Card program not supported for user's region"])
                        /\ loc' = fetched
                        /\ UNCHANGED clock
                   ELSE IF ~isEmailValid(params.recipient.emailAddress)
                   THEN /\ Throw([name |-> "InvalidEmailError", email |-> params.recipient.emailAddress])
                        /\ loc' = Put(fetched, "cardProgram", cardProgram)
                        /\ UNCHANGED clock
                   ELSE IF QuoteNotForUsdc(quote)
                   THEN /\ Throw([name |-> "Error", message |-> "Invalid Quote: Quote not for USDC"])
                        /\ loc' = Put(fetched, "cardProgram", cardProgram)
                        /\ UNCHANGED clock
                   ELSE IF AmountMismatch(quote, params.amount)
                   THEN /\ Throw([name |-> "Error", message |-> "Invalid Quote: Amount request and passed amount does not match"])
                        /\ loc' = Put(fetched, "cardProgram", cardProgram)
                        /\ UNCHANGED clock
                   ELSE /\ clock' = now
                        /\ loc' = Put(Put(fetched, "cardProgram", cardProgram), "now", now)
                        /\ IF CurrencyNotAvailable(cardProgram, quote)
                           THEN Throw([name |-> "Error", message |-> "Invalid Quote: Target currency in quote not available in card program"])
                           ELSE IF QuoteExpired(quote, now)
                           THEN Throw([name |-> "Error", message |-> "Quote expired"])
                           ELSE /\ pc' = "decimals"
                                /\ UNCHANGED error
    /\ UNCHANGED <<service, chain, params, result>>

\* services.ts:303-335: the program fetch, then the synchronous validation of
\* program, email and quote.  Date.now() is read only when the expiry check is reached.
FetchProgramsIn(sandbox) ==
    /\ pc = "fetchPrograms"
    /\ \/ \E e \in Thrown :
            /\ log' = Append(log, Call("fetchZebecCardPrograms", params.recipient.countryCode, "fail"))
            /\ IF DebugThrows(sandbox, CatchReads(e))
               THEN Throw(TypeError)
               ELSE Throw(RemoteError("fetchZebecCardPrograms", Len(log) + 1))
            /\ UNCHANGED <<loc, clock>>
       \/ \E availablePrograms \in Catalogs, now \in ClockReadings(clock) :
            LET quote == params.quote
                cardProgram == find(availablePrograms, params.cardProgramId)
                fetched == Put(loc, "cardProgramDetails", availablePrograms)
            IN  /\ log' = Append(log, Call("fetchZebecCardPrograms", params.recipient.countryCode, "ok"))
                /\ IF ProgramNotSupported(cardProgram)
                   THEN /\ Throw([name |-> "Error", message |-> "Card program not supported for user's region"])
                        /\ loc' = fetched
                        /\ UNCHANGED clock
                   ELSE IF ~isEmailValid(params.recipient.emailAddress)
                   THEN /\ Throw([name |-> "InvalidEmailError", email |-> params.recipient.emailAddress])
                        /\ loc' = Put(fetched, "cardProgram", cardProgram)
                        /\ UNCHANGED clock
                   ELSE IF QuoteNotForUsdc(quote)
                   THEN /\ Throw([name |-> "Error", message |-> "Invalid Quote: Quote not for USDC"])
                        /\ loc' = Put(fetched, "cardProgram", cardProgram)
                        /\ UNCHANGED clock
                   ELSE IF AmountMismatch(quote, params.amount)
                   THEN /\ Throw([name |-> "Error", message |-> "Invalid Quote: Amount request and passed amount does not match"])
                        /\ loc' = Put(fetched, "cardProgram", cardProgram)
                        /\ UNCHANGED clock
                   ELSE /\ clock' = now
                        /\ loc' = Put(Put(fetched, "cardProgram", cardProgram), "now", now)
                        /\ IF QuoteExpired(quote, now)
                           THEN Throw([name |-> "Error", message |-> "Quote expired"])
                           ELSE IF CurrencyNotAvailable(cardProgram, quote)
                           THEN Throw([name |-> "Error", message |-> "Invalid Quote: Target currency in quote not available in card program"])
                           ELSE /\ pc' = "decimals"
                                /\ UNCHANGED error
    /\ UNCHANGED <<service, chain, params, result>>

FetchPrograms == FetchProgramsIn(service.sandbox)

\* services.ts:337-338: usdcToken.decimals(), then ethers.parseUnits
Decimals ==
    /\ pc = "decimals"
    /\ \/ /\ log' = Append(log, Call("decimals", <<>>, "fail"))
          /\ Throw(RemoteError("decimals", Len(log) + 1))
          /\ loc' = Drop(loc, {"cardProgramDetails", "now"})
       \/ \E decimals \in TokenDecimals :
            /\ log' = Append(log, Call("decimals", <<>>, "ok"))
            /\ IF parseUnitsThrows(params.quote.totalPrice, decimals)
               THEN /\ Throw([name |-> "Error", message |-> "too many decimals for format"])
                    /\ loc' = Put(Drop(loc, {"cardProgramDetails", "now"}), "decimals", decimals)
               ELSE /\ loc' = Put(Put(Drop(loc, {"cardProgramDetails", "now"}), "decimals", decimals),
                                  "parsedAmount", parseUnits(params.quote.totalPrice, decimals))
                    /\ pc' = "balanceOf"
                    /\ UNCHANGED error
    /\ UNCHANGED <<service, chain, params, clock, result>>

\* services.ts:340-350: usdcToken.balanceOf(signer), then the balance check
BalanceOf ==
    /\ pc = "balanceOf"
    /\ \/ /\ log' = Append(log, Call("balanceOf", <<>>, "fail"))
          /\ Throw(RemoteError("balanceOf", Len(log) + 1))
          /\ UNCHANGED loc
       \/ \E usdcBalance \in Units(loc["decimals"]) :
            /\ log' = Append(log, Call("balanceOf", <<>>, "ok"))
            /\ loc' = Put(loc, "usdcBalance", usdcBalance)
            /\ IF NotEnoughBalance(loc["parsedAmount"], usdcBalance)
               THEN Throw([name |-> "NotEnoughBalanceError",
                           currentBalance |-> formatUnits(usdcBalance, loc["decimals"]),
                           requiredBalance |-> numberToString(params.quote.totalPrice)])
               ELSE /\ pc' = "cardConfig"
                    /\ UNCHANGED error
    /\ UNCHANGED <<service, chain, params, clock, result>>

\* services.ts:352-361: zebecCard.cardConfig(), then the range check
CardConfig ==
    /\ pc = "cardConfig"
    /\ \/ /\ log' = Append(log, Call("cardConfig", <<>>, "fail"))
          /\ Throw(RemoteError("cardConfig", Len(log) + 1))
          /\ loc' = Drop(loc, {"usdcBalance"})
       \/ \E cardConfig \in CardConfigs(loc["decimals"]) :
            /\ log' = Append(log, Call("cardConfig", <<>>, "ok"))
            /\ loc' = Put(Drop(loc, {"usdcBalance"}), "cardConfig", cardConfig)
            /\ IF AmountOutOfRange(loc["parsedAmount"], cardConfig)
               THEN Throw([name |-> "BuyAmountOutOfRangeError",
                           class |-> "CardPurchaseAmountOutOfRangeError",
                           minRange |-> formatUnits(cardConfig.minCardAmount, loc["decimals"]),
                           maxRange |-> formatUnits(cardConfig.maxCardAmount, loc["decimals"])])
               ELSE /\ pc' = "cardPurchases"
                    /\ UNCHANGED error
    /\ UNCHANGED <<service, chain, params, clock, result>>

\* services.ts:363-379: zebecCard.cardPurchases(signer), new Date(), then the
\* daily-limit check
CardPurchases ==
    /\ pc = "cardPurchases"
    /\ \/ /\ log' = Append(log, Call("cardPurchases", <<>>, "fail"))
          /\ Throw(RemoteError("cardPurchases", Len(log) + 1))
          /\ UNCHANGED <<loc, clock>>
       \/ \E cardPurchaseInfo \in CardPurchaseInfos(loc["decimals"]), today \in ClockReadings(clock) :
            LET ofDay == cardPurchaseOfDay(today, cardPurchaseInfo, loc["parsedAmount"])
            IN  /\ log' = Append(log, Call("cardPurchases", <<>>, "ok"))
                /\ clock' = today
                /\ loc' = Put(Put(Put(loc, "cardPurchaseInfo", cardPurchaseInfo), "today", today),
                              "cardPurchaseOfDay", ofDay)
                /\ IF DailyLimitExceeded(ofDay, loc["cardConfig"])
                   THEN Throw([name |-> "DailyCardPurchaseLimitExceedError",
                               dailyLimit |-> formatUnits(loc["cardConfig"].dailyCardBuyLimit, loc["decimals"]),
                               purchaseOfADay |-> formatUnits(cardPurchaseInfo.totalCardBoughtPerDay, loc["decimals"])])
                   ELSE /\ pc' = "allowance"
                        /\ UNCHANGED error
    /\ UNCHANGED <<service, chain, params, result>>

\* the locals that the code from line 381 on never reads
ValidationLocals == {"decimals", "cardConfig", "cardPurchaseInfo", "today", "cardPurchaseOfDay"}

\* services.ts:381-386: usdcToken.allowance(signer, zebecCard), then the
\* decision to approve
Allowance ==
    /\ pc = "allowance"
    /\ \/ /\ log' = Append(log, Call("allowance", <<>>, "fail"))
          /\ Throw(RemoteError("allowance", Len(log) + 1))
          /\ loc' = Drop(loc, ValidationLocals)
       \/ \E allowance \in Units(loc["decimals"]) :
            /\ log' = Append(log, Call("allowance", <<>>, "ok"))
            /\ loc' = Put(Drop(loc, ValidationLocals), "allowance", allowance)
            /\ pc' = IF NeedsApproval(allowance, loc["parsedAmount"]) THEN "approve" ELSE "buy"
            /\ UNCHANGED error
    /\ UNCHANGED <<service, chain, params, clock, result>>

\* a wait() that resolved without a receipt
NoReceipt == [hash |-> "", blockHash |-> ""]

\* variant of the receipt test that never finds the receipt missing
ReceiptNeverMissing(receipt) == FALSE

\* services.ts:414  if (!buyCardReceipt)
ReceiptMissing(receipt) == receipt = NoReceipt

\* variant of the card-type tag with the two tags exchanged
cardTypeOfExchanged(cardProgram) ==
    IF cardProgram.type = "carbon" THEN "non_reloadable" ELSE "reloadable"

\* services.ts:396  cardProgram.type === "carbon" ? "reloadable" : "non_reloadable"
cardTypeOf(cardProgram) == IF cardProgram.type = "carbon" THEN "reloadable" ELSE "non_reloadable"

\* services.ts:401  params.overrides?.gasLimit || DEFAULT_GAS_LIMIT
gasLimitOf(overrides) ==
    IF overrides.gasLimit = "unset" THEN "DEFAULT_GAS_LIMIT" ELSE overrides.gasLimit

\* services.ts:390: usdcToken.approve(zebecCard, parsedAmount); no overrides are passed
Approve ==
    /\ pc = "approve"
    /\ \/ /\ log' = Append(log, Call("approve", [amount |-> loc["parsedAmount"], gasLimit |-> "none"], "fail"))
          /\ Throw(RemoteError("approve", Len(log) + 1))
       \/ /\ log' = Append(log, Call("approve", [amount |-> loc["parsedAmount"], gasLimit |-> "none"], "ok"))
          /\ pc' = "approveWait"
          /\ UNCHANGED error
    /\ loc' = Drop(loc, {"allowance"})
    /\ UNCHANGED <<service, chain, params, clock, result>>

\* variant of the wait for the approval whose diagnostic reads approveReceipt.hash
\* without optional chaining
ApproveWaitDereferences(sandbox) ==
    /\ pc = "approveWait"
    /\ \/ /\ log' = Append(log, Call("approve.wait", <<>>, "fail"))
          /\ Throw(RemoteError("approve.wait", Len(log) + 1))
       \/ /\ log' = Append(log, Call("approve.wait", <<>>, "null"))
          /\ IF DebugThrows(sandbox, {<<"nullish", ".">>})
             THEN Throw(TypeError)
             ELSE /\ pc' = "buy"
                  /\ UNCHANGED error
       \/ /\ log' = Append(log, Call("approve.wait", <<>>, "ok"))
          /\ IF DebugThrows(sandbox, {<<"object", ".">>})
             THEN Throw(TypeError)
             ELSE /\ pc' = "buy"
                  /\ UNCHANGED error
    /\ UNCHANGED <<service, chain, params, loc, clock, result>>

\* services.ts:391-395: approveResponse.wait(); its result is only printed, with
\* approveReceipt?.hash
ApproveWaitIn(sandbox) ==
    /\ pc = "approveWait"
    /\ \/ /\ log' = Append(log, Call("approve.wait", <<>>, "fail"))
          /\ Throw(RemoteError("approve.wait", Len(log) + 1))
       \/ /\ log' = Append(log, Call("approve.wait", <<>>, "null"))
          /\ IF DebugThrows(sandbox, {<<"nullish", "?.">>})
             THEN Throw(TypeError)
             ELSE /\ pc' = "buy"
                  /\ UNCHANGED error
       \/ /\ log' = Append(log, Call("approve.wait", <<>>, "ok"))
          /\ IF DebugThrows(sandbox, {<<"object", "?.">>})
             THEN Throw(TypeError)
             ELSE /\ pc' = "buy"
                  /\ UNCHANGED error
    /\ UNCHANGED <<service, chain, params, loc, clock, result>>

ApproveWait == ApproveWaitIn(service.sandbox)

\* services.ts:396-412: zebecCard.buyCardDirect(parsedAmount, cardType, emailHash, overrides)
Buy ==
    /\ pc = "buy"
    /\ LET arg == [amount    |-> loc["parsedAmount"],
                   cardType  |-> cardTypeOf(loc["cardProgram"]),
                   emailHash |-> hashSHA256(params.recipient.emailAddress),
                   gasLimit  |-> gasLimitOf(params.overrides)]
       IN  \/ /\ log' = Append(log, Call("buyCardDirect", arg, "fail"))
              /\ Throw(RemoteError("buyCardDirect", Len(log) + 1))
           \/ /\ log' = Append(log, Call("buyCardDirect", arg, "ok"))
              /\ pc' = "buyWait"
              /\ UNCHANGED error
    /\ loc' = Drop(loc, {"allowance", "cardProgram"})
    /\ UNCHANGED <<service, chain, params, clock, result>>

\* services.ts:413-419: buyCardResponse.wait(), then the receipt check, then the
\* diagnostic that reads buyCardReceipt.hash
BuyWaitIn(sandbox) ==
    /\ pc = "buyWait"
    /\ \/ /\ log' = Append(log, Call("buyCardDirect.wait", <<>>, "fail"))
          /\ Throw(RemoteError("buyCardDirect.wait", Len(log) + 1))
          /\ UNCHANGED loc
       \/ \E buyCardReceipt \in Receipts \cup {NoReceipt} :
            /\ log' = Append(log, Call("buyCardDirect.wait", <<>>,
                                       IF buyCardReceipt = NoReceipt THEN "null" ELSE "ok"))
            /\ loc' = Put(loc, "buyCardReceipt", buyCardReceipt)
            /\ IF ReceiptMissing(buyCardReceipt)
               THEN Throw([name |-> "Error", message |-> "Could not get tx receipt for tx"])
               ELSE IF DebugThrows(sandbox, {<<IF buyCardReceipt = NoReceipt THEN "nullish" ELSE "object", ".">>})
               THEN Throw(TypeError)
               ELSE /\ pc' = "assemble"
                    /\ UNCHANGED error
    /\ UNCHANGED <<service, chain, params, clock, result>>

BuyWait == BuyWaitIn(service.sandbox)

\* types.ts Money.create (160-162)
MoneyCreate(amount, currencyCode) == [amount |-> amount, currencyCode |-> currencyCode]

\* variant of the deposit that files the block hash as the transaction hash
DepositOfBlock(quote, buyCardReceipt, buyer, userEmail) ==
    [chainId      |-> "this.chainId",
     tokenName    |-> "USDC",
     tokenAmount  |-> quote.totalPrice,
     signature    |-> buyCardReceipt.hash,
     txHash       |-> buyCardReceipt.blockHash,
     blockHash    |-> buyCardReceipt.blockHash,
     buyerAddress |-> buyer,
     userEmail    |-> userEmail,
     paymentId    |-> ""]

\* types.ts Deposit (106-138), as constructed at services.ts:424-434
Deposit(quote, buyCardReceipt, buyer, userEmail) ==
    [chainId      |-> "this.chainId",
     tokenName    |-> "USDC",
     tokenAmount  |-> quote.totalPrice,
     signature    |-> buyCardReceipt.hash,
     txHash       |-> buyCardReceipt.hash,
     blockHash    |-> buyCardReceipt.blockHash,
     buyerAddress |-> buyer,
     userEmail    |-> userEmail,
     paymentId    |-> ""]

\* types.ts OrderCardRequest (92-104) around Receipt (140-148), as constructed at
\* services.ts:420-441
OrderCardRequest(p, buyCardReceipt, buyer) ==
    [amount    |-> MoneyCreate(p.quote.outputAmount, p.quote.targetCurrency),
     programId |-> p.cardProgramId,
     recipient |-> p.recipient,
     receipt   |-> [quote   |-> p.quote,
                    deposit |-> Deposit(p.quote, buyCardReceipt, buyer, p.recipient.emailAddress)]]

\* variant of the assembly step in which a constructor rejects its arguments
AssembleMayAbort ==
    /\ pc = "assemble"
    /\ Throw([name |-> "ValidationError", message |-> "invalid deposit"])
    /\ UNCHANGED <<service, chain, params, loc, clock, log, result>>

\* services.ts:420-445: the payload is built and the retry loop initialised.  These
\* constructors only store their arguments, and signer.getAddress() returns the
\* address the signer already resolved for balanceOf, cardPurchases and allowance.
Assemble ==
    /\ pc = "assemble"
    /\ loc' = Put(Put(Put(loc, "payload", OrderCardRequest(params, loc["buyCardReceipt"], "signer.address")),
                      "retries", 0), "delay", InitialDelay)
    /\ pc' = "report"
    /\ UNCHANGED <<service, chain, params, clock, log, error, result>>

\* services.ts:447-475 and 484: the loop test, then one submission of the payload.
\* In the catch block the test retries >= maxRetries comes before the increment.
ReportIn(sandbox) ==
    /\ pc = "report"
    /\ IF loc["retries"] < maxRetries
       THEN \/ /\ log' = Append(log, Call("purchaseCard", loc["payload"], "ok"))
               /\ result' = [receipt |-> loc["buyCardReceipt"],
                             orderDetail |-> [responseOf |-> Len(log) + 1]]
               /\ pc' = "done"
               /\ UNCHANGED <<loc, error>>
            \/ \E e \in Thrown :
                 /\ log' = Append(log, Call("purchaseCard", loc["payload"], "fail"))
                 /\ IF DebugThrows(sandbox, CatchReads(e))
                    THEN /\ Throw(TypeError)
                         /\ UNCHANGED loc
                    ELSE IF loc["retries"] >= maxRetries
                    THEN /\ Throw(RemoteError("purchaseCard", Len(log) + 1))
                         /\ UNCHANGED loc
                    ELSE /\ loc' = Put(loc, "retries", loc["retries"] + 1)
                         /\ pc' = "backoff"
                         /\ UNCHANGED error
                 /\ UNCHANGED result
       ELSE /\ Throw([name |-> "Error", message |-> "Max retries reached"])
            /\ UNCHANGED <<loc, log, result>>
    /\ UNCHANGED <<service, chain, params, clock>>

Report == ReportIn(service.sandbox)

\* variant of the backoff step that doubles the delay before waiting
BackoffDoublesFirst ==
    /\ pc = "backoff"
    /\ log' = Append(log, Call("setTimeout", loc["delay"] * 2, "ok"))
    /\ loc' = Put(loc, "delay", loc["delay"] * 2)
    /\ pc' = "report"
    /\ UNCHANGED <<service, chain, params, clock, error, result>>

\* variant of the backoff step that goes back to the approval instead of the
\* submission of the payload
BackoffReapproves ==
    /\ pc = "backoff"
    /\ log' = Append(log, Call("setTimeout", loc["delay"], "ok"))
    /\ loc' = Put(loc, "delay", loc["delay"] * 2)
    /\ pc' = "approve"
    /\ UNCHANGED <<service, chain, params, clock, error, result>>

\* variant of the backoff step that does not wait after the last attempt
BackoffSkipsLast ==
    /\ pc = "backoff"
    /\ log' = IF loc["retries"] >= maxRetries
              THEN log
              ELSE Append(log, Call("setTimeout", loc["delay"], "ok"))
    /\ loc' = Put(loc, "delay", loc["delay"] * 2)
    /\ pc' = "report"
    /\ UNCHANGED <<service, chain, params, clock, error, result>>

\* variant of the backoff step that spins: it makes no wait, changes nothing and
\* stays where it is
BackoffSpins ==
    /\ pc = "backoff"
    /\ UNCHANGED vars

\* services.ts:479-480: the timer wait, then delay *= 2
Backoff ==
    /\ pc = "backoff"
    /\ log' = Append(log, Call("setTimeout", loc["delay"], "ok"))
    /\ loc' = Put(loc, "delay", loc["delay"] * 2)
    /\ pc' = "report"
    /\ UNCHANGED <<service, chain, params, clock, error, result>>

Next ==
    \/ Ping
    \/ FetchPrograms
    \/ Decimals
    \/ BalanceOf
    \/ CardConfig
    \/ CardPurchases
    \/ Allowance
    \/ Approve
    \/ ApproveWait
    \/ Buy
    \/ BuyWait
    \/ Assemble
    \/ Report
    \/ Backoff

Spec == Init /\ [][Next]_vars

\* Every remote call eventually returns or fails, and the synchronous code between
\* two calls runs to its end: a step that can be taken is eventually taken.  The
\* invocations are those with the default gas limit and a recipient of the first
\* country; neither argument is read by a condition of the code.
InitFair ==
    /\ Init
    /\ params.overrides.gasLimit = "unset"
    /\ params.recipient.countryCode = "NPL"

FairSpec == InitFair /\ [][Next]_vars /\ WF_vars(Next)

\* the steps whose diagnostics read a property of a value the step received, on a
\* service whose sandbox flag is sandbox.  The other diagnostics (lines 341-343,
\* 387-389, 403-405, 476-478) print a text or a number the invocation already
\* holds, and their steps do not read the flag.
DiagnosticSteps == {"ping", "fetchPrograms", "approveWait", "buyWait", "report"}
DiagnosticStepIn(sandbox) ==
    \/ PingIn(sandbox)
    \/ FetchProgramsIn(sandbox)
    \/ ApproveWaitIn(sandbox)
    \/ BuyWaitIn(sandbox)
    \/ ReportIn(sandbox)

(* ------------------- invocations on one service instance -------------- *)
(* purchaseCardWithUsdc is called again on the same instance once the       *)
(* previous call has returned or thrown.  The locals of lines 299-445 are   *)
(* declared inside the method; the instance's fields are readonly           *)
(* (services.ts:239-244) and assigned in the constructor only.  The log is  *)
(* that of the invocation under way; the clock goes on.                     *)

\* variant of the next call that finds the values the previous call read
CallAgainWithLocals ==
    /\ pc \in {"done", "error"}
    /\ params' \in {p \in Params : p.overrides.gasLimit = "unset" /\ p.recipient.countryCode = "NPL"}
    /\ pc' = "ping"
    /\ loc' = Drop(loc, {"payload", "retries", "delay", "buyCardReceipt"})
    /\ log' = <<>>
    /\ error' = NoError
    /\ result' = NoResult
    /\ UNCHANGED <<service, chain, clock>>

\* services.ts:292-299: the next call of purchaseCardWithUsdc on the instance
CallAgain ==
    /\ pc \in {"done", "error"}
    /\ params' \in {p \in Params : p.overrides.gasLimit = "unset" /\ p.recipient.countryCode = "NPL"}
    /\ pc' = "ping"
    /\ loc' = <<>>
    /\ log' = <<>>
    /\ error' = NoError
    /\ result' = NoResult
    /\ UNCHANGED <<service, chain, clock>>

NextSequence == Next \/ CallAgain

SpecSequence == InitFair /\ [][NextSequence]_vars

(* ------------------------ the reads of the service --------------------- *)
(* fetchQuote, fetchVault, fetchZebecCardPrograms and fetchOrders of        *)
(* ZebecCardAPIService (services.ts:137-236), called on their own, on a     *)
(* service in sandbox or in production mode.  params holds the method       *)
(* called and its arguments.                                                *)

\* the service the constructor yields for the main network with sandbox off
ProductionService ==
    [sandbox    |-> FALSE,
     apiService |-> [apiUrl |-> "CARD_API_URL.Production", sandbox |-> FALSE],
     chainId    |-> 1]

QuoteTypes == {"EXACT_IN", "EXACT_OUT"}
QueryParams == {"email", "txHash", "orderId"}

FetchCalls ==
    [method : {"fetchQuote"}, symbol : {"USDC"}, amount : Amounts, type : QuoteTypes]
        \cup [method : {"fetchVault"}, symbol : Tokens]
        \cup [method : {"fetchZebecCardPrograms"}, countryCode : CountryCodes]
        \cup [method : {"fetchOrders"}, queryParams : QueryParams, queryValue : {"john@gmail.com"}]

\* what the remote service answers to a quote request: the timestamp is a string
QuoteData == [amountRequested : AmountsRequested, timestamp : {"2025-12-31T00:00:00Z"}]

\* services.ts:148  new Date(data.timestamp)
NewDate(timestamp) == [date |-> timestamp]

InitFetch ==
    /\ params \in FetchCalls
    /\ pc = "fetch"
    /\ loc = <<>>
    /\ clock = Instant(StartDay, 0)
    /\ log = <<>>
    /\ error = NoError
    /\ result = NoResult
    /\ chain = NotFollowed
    /\ service \in {ExampleService, ProductionService}

\* variant of the try/catch that throws an error of its own in place of the one caught
TryGetWrapped(sandbox, op, arg, Values) ==
    \/ \E value \in Values :
         /\ log' = Append(log, Call(op, arg, "ok"))
         /\ result' = value
         /\ pc' = "done"
         /\ UNCHANGED error
    \/ \E e \in Thrown :
         /\ log' = Append(log, [op |-> op, arg |-> arg, res |-> "fail", cause |-> e])
         /\ IF DebugThrows(sandbox, CatchReads(e))
            THEN Throw(TypeError)
            ELSE Throw([name |-> "Error", message |-> "Request failed"])
         /\ UNCHANGED result

\* services.ts:142-160, 164-177, 189-204, 218-234: try { await this.api.get(url) }
\* catch (e) { diagnostics; throw e }.  Values are the values returned on success.
TryGet(sandbox, op, arg, Values) ==
    \/ \E value \in Values :
         /\ log' = Append(log, Call(op, arg, "ok"))
         /\ result' = value
         /\ pc' = "done"
         /\ UNCHANGED error
    \/ \E e \in Thrown :
         /\ log' = Append(log, [op |-> op, arg |-> arg, res |-> "fail", cause |-> e])
         /\ IF DebugThrows(sandbox, CatchReads(e))
            THEN Throw(TypeError)
            ELSE Throw(RemoteError(op, Len(log) + 1))
         /\ UNCHANGED result

\* services.ts:137-161
fetchQuote ==
    /\ pc = "fetch"
    /\ params.method = "fetchQuote"
    /\ TryGet(service.sandbox, "fetchQuote",
              [symbol |-> params.symbol, amount |-> formatAmount(params.amount), type |-> params.type],
              {[data EXCEPT !.timestamp = NewDate(data.timestamp)] : data \in QuoteData})
    /\ UNCHANGED <<service, chain, params, loc, clock>>

\* services.ts:163-178
fetchVault ==
    /\ pc = "fetch"
    /\ params.method = "fetchVault"
    /\ TryGet(service.sandbox, "fetchVault", toLowerCase(params.symbol),
              {[depositVault |-> [address |-> "0xvault"]]})
    /\ UNCHANGED <<service, chain, params, loc, clock>>

\* services.ts:180-206
fetchZebecCardPrograms ==
    /\ pc = "fetch"
    /\ params.method = "fetchZebecCardPrograms"
    /\ TryGet(service.sandbox, "fetchZebecCardPrograms", params.countryCode,
              {[availablePrograms |-> c] : c \in Catalogs})
    /\ UNCHANGED <<service, chain, params, loc, clock>>

\* services.ts:208-235
fetchOrders ==
    /\ pc = "fetch"
    /\ params.method = "fetchOrders"
    /\ TryGet(service.sandbox, "fetchOrders",
              [name |-> params.queryParams, value |-> params.queryValue],
              {<<>>, <<[id |-> "order-1"]>>})
    /\ UNCHANGED <<service, chain, params, loc, clock>>

\* the reads called on their own, and purchaseCardWithUsdc
InitService == InitFetch \/ InitFair

NextService ==
    \/ fetchQuote
    \/ fetchVault
    \/ fetchZebecCardPrograms
    \/ fetchOrders
    \/ Next

SpecService == InitService /\ [][NextService]_vars

(* --------------------------- Recipient.create -------------------------- *)

\* an optional string argument: left out, or given with a value
Omitted == [given |-> FALSE, value |-> ""]
Given(v) == [given |-> TRUE, value |-> v]

\* the arguments of the README's example, shortened
ValidArgs ==
    [participantId |-> "a",
     firstName     |-> "aaaa",
     lastName      |-> "aaa",
     emailAddress  |-> "john@gmail.com",
     mobilePhone   |-> "aaaaaaaaaa",
     language      |-> "en-US",
     city          |-> "aaaaaaaaa",
     state         |-> "aaaaaaa",
     postalCode    |-> "aaaaa",
     countryCode   |-> "NPL",
     address1      |-> "aaaaaaaa",
     address2      |-> Omitted]

ArgNames == DOMAIN ValidArgs

\* the values an argument takes: around each limit of its check
ArgValues(f) ==
    CASE f = "participantId" -> {"", "a", Rep(20), Rep(21), "ab_1"}
      [] f = "firstName"     -> {"", Rep(50), Rep(51)}
      [] f = "lastName"      -> {"", Rep(50), Rep(51)}
      [] f = "emailAddress"  -> {"", "john@gmail", Rep(70) \o "@gmail.com", Rep(71) \o "@gmail.com"}
      [] f = "mobilePhone"   -> {"", Rep(20), Rep(21)}
      [] f = "language"      -> {"", "en-US"}
      [] f = "city"          -> {"", Rep(35), Rep(36)}
      [] f = "state"         -> {"", Rep(1), Rep(20), Rep(21), Rep(50), Rep(51)}
      [] f = "postalCode"    -> {"", Rep(20), Rep(21)}
      [] f = "countryCode"   -> {"NPL", "USA", "XXX"}
      [] f = "address1"      -> {"", Rep(50), Rep(51)}
      [] f = "address2"      -> {Omitted, Given(""), Given(Rep(50)), Given(Rep(51))}

\* argument lists that differ from the valid one in at most two arguments
RecipientArgs ==
    UNION {{[[ValidArgs EXCEPT ![f1] = v1] EXCEPT ![f2] = v2] :
                v1 \in ArgValues(f1), v2 \in ArgValues(f2)} :
           f1 \in ArgNames, f2 \in ArgNames}

\* types.ts ALL_COUNTRIES_AND_CODE (297-548), on the codes of the model
IsSupportedCountry(countryCode) == countryCode \in {"NPL", "USA"}

\* types.ts:211-280  the message of the first check of Recipient.create that
\* fails, or "" when every check passes
FirstViolation(a) ==
    IF ~hasLen(a.participantId, 1, 20) THEN "Participants must be of 1 to 20 characters."
    ELSE IF ~isAlphaNumeric(a.participantId)
        THEN "Participants must only contains alpha numeric characters"
    ELSE IF ~hasLen(a.firstName, 1, 50) THEN "Firstname must be within 1 to 50 characters."
    ELSE IF ~hasLen(a.lastName, 1, 50) THEN "Lastname must be within 1 to 50 characters."
    ELSE IF ~hasLen(a.emailAddress, 1, 80) THEN "Email must be within 1 to 80 characters."
    ELSE IF ~isEmailValid(a.emailAddress) THEN "Email address must be a valid email."
    ELSE IF a.language = "" THEN "Language code is required"
    ELSE IF ~hasLen(a.mobilePhone, 1, 20)
        THEN "Mobile phone number must be within 1 to 20 characters."
    ELSE IF ~hasLen(a.city, 1, 35) THEN "City must be within 1 to 50 characters."
    ELSE IF ~hasLen(a.state, 1, 50) THEN "State must be within 1 to 50 characters."
    ELSE IF ~IsSupportedCountry(a.countryCode)
        THEN "CountryCode must be a valid supported ISO 3166-1 alpha-3 code"
    ELSE IF ~hasLen(a.postalCode, 1, 20) THEN "Postal code must be within 1 to 20 characters."
    ELSE IF ~hasLen(a.address1, 1, 50) THEN "Address line 1 must be within 1 to 50 characters."
    ELSE IF a.address2.given /\ a.address2.value /= "" /\ ~hasLen(a.address2.value, 1, 50)
        THEN "Address line 2 must be within 1 to 50 characters."
    ELSE ""

\* types.ts:282-295 and the constructor (183-209): the Recipient stores the
\* arguments, with address2 ?? "N/A"
Recipient(a) ==
    [a EXCEPT !.address2 = IF a.address2.given THEN a.address2.value ELSE "N/A"]

InitRecipient ==
    /\ params \in RecipientArgs
    /\ pc = "create"
    /\ loc = <<>>
    /\ clock = Instant(StartDay, 0)
    /\ log = <<>>
    /\ error = NoError
    /\ result = NoResult
    /\ chain = NotFollowed
    /\ service = NoService

\* types.ts:211-295  Recipient.create
RecipientCreate ==
    /\ pc = "create"
    /\ IF FirstViolation(params) /= ""
       THEN /\ pc' = "rejected"
            /\ error' = [name |-> "ValidationError", message |-> FirstViolation(params)]
            /\ UNCHANGED result
       ELSE /\ pc' = "created"
            /\ result' = Recipient(params)
            /\ UNCHANGED error
    /\ UNCHANGED <<service, chain, params, loc, clock, log>>

NextRecipient == RecipientCreate

SpecRecipient == InitRecipient /\ [][NextRecipient]_vars

(* ------------------- the constructor of ZebecCardEvmService ------------ *)

\* chains.ts enum SupportedEvmChain
SupportedEvmChain ==
    [Mainnet |-> 1, Sepolia |-> 11155111, Base |-> 8453, Bsc |-> 56,
     BscTestnet |-> 97, Polygon |-> 137, PolygonAmoy |-> 80002]

\* chains.ts enum BittensorChain
BittensorChain == [Mainnet |-> 558, Testnet |-> 559]

\* chains.ts TESTNET_CHAINIDS
TESTNET_CHAINIDS ==
    {SupportedEvmChain.BscTestnet, SupportedEvmChain.PolygonAmoy, SupportedEvmChain.Sepolia}

\* chains.ts parseSupportedChain: the default branch of the switch throws
parseSupportedChainThrows(chainId) == chainId \notin {1, 11155111, 8453, 56, 97, 137, 80002}

\* chains.ts parseSupportedChain: the member of SupportedEvmChain for a chain id
parseSupportedChain(chainId) ==
    CASE chainId = 1 -> SupportedEvmChain.Mainnet
      [] chainId = 11155111 -> SupportedEvmChain.Sepolia
      [] chainId = 8453 -> SupportedEvmChain.Base
      [] chainId = 56 -> SupportedEvmChain.Bsc
      [] chainId = 97 -> SupportedEvmChain.BscTestnet
      [] chainId = 137 -> SupportedEvmChain.Polygon
      [] chainId = 80002 -> SupportedEvmChain.PolygonAmoy

\* chain ids a caller may pass: the supported ones, the Bittensor ones, the
\* commented-out Odyssey ones, and a few others
ChainIds ==
    {SupportedEvmChain[k] : k \in DOMAIN SupportedEvmChain}
        \cup {BittensorChain.Mainnet, BittensorChain.Testnet}
        \cup {131313, 153153, 0, 5, 10, 42161}

\* the fourth argument: left out, or an object whose sandbox is unset, false or true
SdkOptions ==
    {[given |-> FALSE, sandbox |-> "undefined"]}
        \cup [given : {TRUE}, sandbox : {"undefined", "false", "true"}]

\* services.ts:254  sdkOptions?.sandbox ? sdkOptions.sandbox : false
sandboxOf(sdkOptions) == sdkOptions.given /\ sdkOptions.sandbox = "true"

\* variant of the environment test that only keeps sandbox off the main networks
EnvironmentMismatchOneWay(sandbox, isTesnetChainId) == sandbox /\ ~isTesnetChainId

\* services.ts:257  (this.sandbox && !isTesnetChainId) || (!this.sandbox && isTesnetChainId)
EnvironmentMismatch(sandbox, isTesnetChainId) ==
    (sandbox /\ ~isTesnetChainId) \/ (~sandbox /\ isTesnetChainId)

\* services.ts:42-52  the ZebecCardAPIService constructor
ZebecCardAPIService(sandbox) ==
    [apiUrl |-> IF sandbox THEN "CARD_API_URL.Sandbox" ELSE "CARD_API_URL.Production",
     sandbox |-> sandbox]

InitConstructor ==
    /\ params \in [chainId : ChainIds, sdkOptions : SdkOptions]
    /\ pc = "construct"
    /\ loc = <<>>
    /\ clock = Instant(StartDay, 0)
    /\ log = <<>>
    /\ error = NoError
    /\ result = NoResult
    /\ chain = NotFollowed
    /\ service = NoService

\* services.ts:246-270  the constructor.  The contract addresses of lines 265-266
\* are looked up by a member of SupportedEvmChain, and connect only binds them.
Constructor ==
    /\ pc = "construct"
    /\ LET sandbox == sandboxOf(params.sdkOptions)
           isTesnetChainId == params.chainId \in TESTNET_CHAINIDS
       IN  IF EnvironmentMismatch(sandbox, isTesnetChainId)
           THEN /\ pc' = "rejected"
                /\ error' = [name |-> "Error",
                             message |-> "Only testnet chains are allowed in sandbox environment"]
                /\ UNCHANGED result
           ELSE IF parseSupportedChainThrows(params.chainId)
           THEN /\ pc' = "rejected"
                /\ error' = [name |-> "Error", message |-> "Chain Id not supported."]
                /\ UNCHANGED result
           ELSE /\ pc' = "constructed"
                /\ result' = [sandbox    |-> sandbox,
                              apiService |-> ZebecCardAPIService(sandbox),
                              chainId    |-> parseSupportedChain(params.chainId)]
                /\ UNCHANGED error
    /\ UNCHANGED <<service, chain, params, loc, clock, log>>

NextConstructor == Constructor

SpecConstructor == InitConstructor /\ [][NextConstructor]_vars

(* ------------- two concurrent invocations for one account ------------- *)
(* Two invocations of purchaseCardWithUsdc by the same signer, from the     *)
(* first chain read (services.ts:337) to the receipt of the purchase (416). *)
(* Both have passed the checks of lines 301-335.  Here pc, loc, error and   *)
(* result hold one value per invocation, and the chain reads return what    *)
(* the chain holds when they are made; the node always answers.  What the   *)
(* token and card contracts do is not in the source: a mined approve sets   *)
(* the allowance; a mined purchase either reverts, and must revert when     *)
(* balance or allowance do not cover it, or moves the tokens and adds to    *)
(* the recorded total.                                                      *)

Invocations == {1, 2}

\* USDC has six decimals
UsdcDecimals == 6

\* the chain states at the start: the widest card range, any balance, limit and
\* recorded total of today, no allowance or the largest one
ChainStates ==
    [followed : {TRUE},
     decimals : {UsdcDecimals},
     balance : Units(UsdcDecimals),
     allowance : {u \in Units(UsdcDecimals) :
                     u = 0 \/ \A v \in Units(UsdcDecimals) : v <= u},
     cardConfig : {c \in CardConfigs(UsdcDecimals) :
                      \A d \in CardConfigs(UsdcDecimals) :
                          c.minCardAmount <= d.minCardAmount /\ d.maxCardAmount <= c.maxCardAmount},
     cardPurchases : [unixInRecord : {StartDay * SecPerDay},
                      totalCardBoughtPerDay : Units(UsdcDecimals)]]

InitConcurrent ==
    /\ params \in [Invocations -> [quote : [totalPrice : TotalPrices],
                                    overrides : [gasLimit : {"unset"}]]]
    /\ pc = [p \in Invocations |-> "decimals"]
    /\ loc = [p \in Invocations |-> <<>>]
    /\ clock = Instant(StartDay, 0)
    /\ log = <<>>
    /\ error = [p \in Invocations |-> NoError]
    /\ result = [p \in Invocations |-> NoResult]
    /\ chain \in ChainStates
    /\ service = ExampleService

\* invocation p moves to the step at, with the locals l
Goto(p, at, l) ==
    /\ pc' = [pc EXCEPT ![p] = at]
    /\ loc' = [loc EXCEPT ![p] = l]
    /\ UNCHANGED error

\* invocation p throws e, with the locals l
ThrowIn(p, e, l) ==
    /\ pc' = [pc EXCEPT ![p] = "error"]
    /\ loc' = [loc EXCEPT ![p] = l]
    /\ error' = [error EXCEPT ![p] = e]

\* services.ts:337-338
ConcDecimals(p) ==
    /\ pc[p] = "decimals"
    /\ LET decimals == chain.decimals
       IN  IF parseUnitsThrows(params[p].quote.totalPrice, decimals)
           THEN ThrowIn(p, [name |-> "Error", message |-> "too many decimals for format"],
                        Put(loc[p], "decimals", decimals))
           ELSE Goto(p, "balanceOf",
                     Put(Put(loc[p], "decimals", decimals),
                         "parsedAmount", parseUnits(params[p].quote.totalPrice, decimals)))
    /\ UNCHANGED <<service, chain, params, clock, log, result>>

\* variant of the balance read that waits while the other invocation is between
\* its own balance read and the end of its purchase
ConcBalanceOfExclusive(p) ==
    /\ pc[p] = "balanceOf"
    /\ \A q \in Invocations \ {p} : pc[q] \in {"decimals", "balanceOf", "assemble", "error"}
    /\ LET usdcBalance == chain.balance
           l == Put(loc[p], "usdcBalance", usdcBalance)
       IN  IF NotEnoughBalance(loc[p]["parsedAmount"], usdcBalance)
           THEN ThrowIn(p, [name |-> "NotEnoughBalanceError",
                            currentBalance |-> formatUnits(usdcBalance, loc[p]["decimals"]),
                            requiredBalance |-> numberToString(params[p].quote.totalPrice)], l)
           ELSE Goto(p, "cardConfig", l)
    /\ UNCHANGED <<service, chain, params, clock, log, result>>

\* services.ts:340-350
ConcBalanceOf(p) ==
    /\ pc[p] = "balanceOf"
    /\ LET usdcBalance == chain.balance
           l == Put(loc[p], "usdcBalance", usdcBalance)
       IN  IF NotEnoughBalance(loc[p]["parsedAmount"], usdcBalance)
           THEN ThrowIn(p, [name |-> "NotEnoughBalanceError",
                            currentBalance |-> formatUnits(usdcBalance, loc[p]["decimals"]),
                            requiredBalance |-> numberToString(params[p].quote.totalPrice)], l)
           ELSE Goto(p, "cardConfig", l)
    /\ UNCHANGED <<service, chain, params, clock, log, result>>

\* services.ts:352-361
ConcCardConfig(p) ==
    /\ pc[p] = "cardConfig"
    /\ LET cardConfig == chain.cardConfig
           l == Put(loc[p], "cardConfig", cardConfig)
       IN  IF AmountOutOfRange(loc[p]["parsedAmount"], cardConfig)
           THEN ThrowIn(p, [name |-> "BuyAmountOutOfRangeError",
                            class |-> "CardPurchaseAmountOutOfRangeError",
                            minRange |-> formatUnits(cardConfig.minCardAmount, loc[p]["decimals"]),
                            maxRange |-> formatUnits(cardConfig.maxCardAmount, loc[p]["decimals"])], l)
           ELSE Goto(p, "cardPurchases", l)
    /\ UNCHANGED <<service, chain, params, clock, log, result>>

\* variant of the daily-limit step in which the check books the amount on the
\* purchase record it has read
ConcCardPurchasesRecording(p) ==
    /\ pc[p] = "cardPurchases"
    /\ LET cardPurchaseInfo == chain.cardPurchases
           today == clock
           ofDay == cardPurchaseOfDay(today, cardPurchaseInfo, loc[p]["parsedAmount"])
           l == Put(Put(loc[p], "cardPurchaseInfo", cardPurchaseInfo), "cardPurchaseOfDay", ofDay)
       IN  /\ chain' = [chain EXCEPT !.cardPurchases.totalCardBoughtPerDay = ofDay]
           /\ IF DailyLimitExceeded(ofDay, loc[p]["cardConfig"])
              THEN ThrowIn(p, [name |-> "DailyCardPurchaseLimitExceedError",
                               dailyLimit |-> formatUnits(loc[p]["cardConfig"].dailyCardBuyLimit,
                                                          loc[p]["decimals"]),
                               purchaseOfADay |-> formatUnits(cardPurchaseInfo.totalCardBoughtPerDay,
                                                              loc[p]["decimals"])], l)
              ELSE Goto(p, "allowance", l)
    /\ UNCHANGED <<service, params, clock, log, result>>

\* services.ts:363-379
ConcCardPurchases(p) ==
    /\ pc[p] = "cardPurchases"
    /\ LET cardPurchaseInfo == chain.cardPurchases
           today == clock
           ofDay == cardPurchaseOfDay(today, cardPurchaseInfo, loc[p]["parsedAmount"])
           l == Put(Put(loc[p], "cardPurchaseInfo", cardPurchaseInfo), "cardPurchaseOfDay", ofDay)
       IN  IF DailyLimitExceeded(ofDay, loc[p]["cardConfig"])
           THEN ThrowIn(p, [name |-> "DailyCardPurchaseLimitExceedError",
                            dailyLimit |-> formatUnits(loc[p]["cardConfig"].dailyCardBuyLimit,
                                                       loc[p]["decimals"]),
                            purchaseOfADay |-> formatUnits(cardPurchaseInfo.totalCardBoughtPerDay,
                                                           loc[p]["decimals"])], l)
           ELSE Goto(p, "allowance", l)
    /\ UNCHANGED <<service, chain, params, clock, log, result>>

\* services.ts:381-386
ConcAllowance(p) ==
    /\ pc[p] = "allowance"
    /\ LET allowance == chain.allowance
       IN  Goto(p, IF NeedsApproval(allowance, loc[p]["parsedAmount"]) THEN "approve" ELSE "buy",
                Put(loc[p], "allowance", allowance))
    /\ UNCHANGED <<service, chain, params, clock, log, result>>

\* services.ts:390: the approval is submitted
ConcApprove(p) ==
    /\ pc[p] = "approve"
    /\ Goto(p, "approveWait", Put(loc[p], "approveResponse", [amount |-> loc[p]["parsedAmount"]]))
    /\ UNCHANGED <<service, chain, params, clock, log, result>>

\* services.ts:391-395: the approval is mined
ConcApproveWait(p) ==
    /\ pc[p] = "approveWait"
    /\ chain' = [chain EXCEPT !.allowance = loc[p]["approveResponse"].amount]
    /\ Goto(p, "buy", loc[p])
    /\ UNCHANGED <<service, params, clock, log, result>>

\* services.ts:396-412: the purchase is submitted
ConcBuy(p) ==
    /\ pc[p] = "buy"
    /\ Goto(p, "buyWait", Put(loc[p], "buyCardResponse", [amount |-> loc[p]["parsedAmount"]]))
    /\ UNCHANGED <<service, chain, params, clock, log, result>>

\* services.ts:413-416: the purchase is mined, or reverts
ConcBuyWait(p) ==
    /\ pc[p] = "buyWait"
    /\ LET amount == loc[p]["buyCardResponse"].amount
       IN  \/ /\ ThrowIn(p, RemoteError("buyCardDirect.wait", p), loc[p])
              /\ UNCHANGED chain
           \/ /\ chain.balance >= amount
              /\ chain.allowance >= amount
              /\ chain' = [chain EXCEPT
                              !.balance = @ - amount,
                              !.allowance = @ - amount,
                              !.cardPurchases.totalCardBoughtPerDay = @ + amount]
              /\ Goto(p, "assemble", Put(loc[p], "buyCardReceipt", CHOOSE r \in Receipts : TRUE))
    /\ UNCHANGED <<service, params, clock, log, result>>

\* the step of invocation p
StepOf(p) ==
    \/ ConcDecimals(p)
    \/ ConcBalanceOf(p)
    \/ ConcCardConfig(p)
    \/ ConcCardPurchases(p)
    \/ ConcAllowance(p)
    \/ ConcApprove(p)
    \/ ConcApproveWait(p)
    \/ ConcBuy(p)
    \/ ConcBuyWait(p)

NextConcurrent == \E p \in Invocations : StepOf(p)

SpecConcurrent == InitConcurrent /\ [][NextConcurrent]_vars

(* ------------------------- vocabulary of the claims -------------------- *)

Ops == {log[i].op : i \in DOMAIN log}
Calls(op) == {i \in DOMAIN log : log[i].op = op}
Count(op) == Cardinality(Calls(op))
Answered(op, res) == \E i \in DOMAIN log : log[i].op = op /\ log[i].res = res

ChainOps == {"decimals", "balanceOf", "cardConfig", "cardPurchases", "allowance",
             "approve", "approve.wait", "buyCardDirect", "buyCardDirect.wait"}
NoChainCall == Ops \cap ChainOps = {}
NoTransfer == "approve" \notin Ops /\ "buyCardDirect" \notin Ops
Failed == pc = "error" /\ error.name /= "none"

\* two instants on the same calendar date: day of month, month and year agree
SameCalendarDate(date1, date2) ==
    /\ getUTCDate(date1) = getUTCDate(date2)
    /\ getUTCMonth(date1) = getUTCMonth(date2)
    /\ getUTCFullYear(date1) = getUTCFullYear(date2)

\* the submissions to the order service, and the number of submission i among them
Submissions == Calls("purchaseCard")
AttemptNo(i) == Cardinality({j \in Submissions : j <= i})

(* ------------------------------- claims -------------------------------- *)

\* The pre-transfer checks, stated on the values the invocation was given and read
PingFailed == Answered("ping", "fail")
ProgramAbsent ==
    Has("cardProgramDetails")
        /\ ~(\E i \in DOMAIN loc["cardProgramDetails"] :
                loc["cardProgramDetails"][i].id = params.cardProgramId)
EmailMalformed == Has("cardProgramDetails") /\ ~isEmailValid(params.recipient.emailAddress)
TokenNotUsdc == Has("cardProgramDetails") /\ params.quote.token \notin {"USDC", "Usdc", "usdc"}
AmountDiffers ==
    Has("cardProgramDetails") /\ params.quote.amountRequested /= formatAmount(params.amount)
ExpiryCheckFails ==
    Has("now") /\ Before(MinusMs(params.quote.expiresIn, 20000), loc["now"])
CurrencyNotOffered ==
    Has("cardProgram") /\ Has("now")
        /\ params.quote.targetCurrency \notin loc["cardProgram"].availableCurrencies
BalanceTooLow == Has("usdcBalance") /\ loc["usdcBalance"] < loc["parsedAmount"]
OutsideRange ==
    Has("cardConfig")
        /\ (loc["parsedAmount"] < loc["cardConfig"].minCardAmount
            \/ loc["parsedAmount"] > loc["cardConfig"].maxCardAmount)
OverDailyLimit ==
    Has("cardPurchaseOfDay")
        /\ loc["cardPurchaseOfDay"] > loc["cardConfig"].dailyCardBuyLimit

SomeCheckFails ==
    \/ PingFailed
    \/ ProgramAbsent
    \/ EmailMalformed
    \/ TokenNotUsdc
    \/ AmountDiffers
    \/ ExpiryCheckFails
    \/ CurrencyNotOffered
    \/ BalanceTooLow
    \/ OutsideRange
    \/ OverDailyLimit

\* C1: whenever one of the pre-transfer checks (ping, program, email, quote token,
\* quote amount, quote expiry, target currency, balance, range, daily limit) fails,
\* the invocation has ended in an error and has submitted neither approve nor
\* buyCardDirect.
C1_FailedCheckAbortsBeforeTransfer == SomeCheckFails => Failed /\ NoTransfer

\* C1 witness: the last of the checks, the daily limit, failed and nothing was submitted
C1_Witness ==
    /\ OverDailyLimit
    /\ ~BalanceTooLow /\ ~OutsideRange
    /\ Failed /\ NoTransfer

C3_LastErrorSurfaced ==
    (pc = "error" /\ Count("purchaseCard") = 5
        /\ \A i \in Submissions : log[i].res = "fail") =>
            \E i \in Submissions :
                /\ AttemptNo(i) = 5
                /\ error.name = "RemoteError"
                /\ error = RemoteError("purchaseCard", i)

\* C4: an invocation submits to the order service at most five times.
C4_AtMostFiveSubmissions == Count("purchaseCard") <= 5

\* C4 witness: five submissions were made and the invocation failed
C4_Witness == Count("purchaseCard") = 5 /\ pc = "error"

\* C5: consecutive submissions k and k+1 (k = 1..4) are separated by exactly one
\* timer wait, of 1000 * 2^(k-1) ms; and a submission that succeeds is the last
\* event of the invocation, which returns the purchase receipt and that
\* submission's response as orderDetail.
C5_BackoffLaw ==
    /\ \A i \in Submissions :
          (i < Len(log) /\ AttemptNo(i) <= 4) =>
              /\ log[i].res = "fail"
              /\ log[i + 1].op = "setTimeout"
              /\ log[i + 1].arg = 1000 * Pow2(AttemptNo(i) - 1)
              /\ (i + 1 < Len(log) => log[i + 2].op = "purchaseCard")
    /\ \A i \in Submissions :
          log[i].res = "ok" =>
              /\ i = Len(log)
              /\ pc = "done"
              /\ result.receipt \in Receipts
              /\ result.receipt = loc["buyCardReceipt"]
              /\ result.orderDetail = [responseOf |-> i]

\* C5 witness: two failures, waits of 1 s and 2 s, success on the third submission
C5_Witness ==
    /\ pc = "done"
    /\ Count("purchaseCard") = 3
    /\ \E i \in Calls("setTimeout") : log[i].arg = 2000

\* C6 (as claimed): if the time read at the expiry check is at or after
\* expiresIn - 20 s, the boundary included, the invocation is rejected before any
\* chain call.
C6_RejectedAtOrAfterMargin ==
    (Has("now") /\ ~Before(loc["now"], MinusMs(params.quote.expiresIn, 20000))) =>
        Failed /\ NoChainCall

\* C7 (as claimed): buyCardDirect is called only after the approval's wait returned
\* a receipt; when that wait yields no receipt the purchase call is never made.
C7_BuyOnlyAfterFinalizedApproval ==
    /\ \A i \in Calls("buyCardDirect") :
          Count("approve") > 0 =>
              \E j \in Calls("approve.wait") : j < i /\ log[j].res = "ok"
    /\ Answered("approve.wait", "null") => "buyCardDirect" \notin Ops

\* C8: when the purchase's wait yields no receipt the invocation has failed with
\* the error of the receipt test, made the purchase call once only, and made no
\* submission to the order service.
C8_NoReceiptIsFatal ==
    Answered("buyCardDirect.wait", "null") =>
        /\ Failed
        /\ error = [name |-> "Error", message |-> "Could not get tx receipt for tx"]
        /\ Count("buyCardDirect") = 1
        /\ Count("buyCardDirect.wait") = 1
        /\ Count("purchaseCard") = 0

\* C8 witness: the purchase's wait returned no receipt
C8_Witness == Answered("buyCardDirect.wait", "null") /\ pc = "error"

\* C9 (as claimed): the running total is totalCardBoughtPerDay + amount exactly
\* when today and the last purchase share day of month, month and year, and the
\* amount alone otherwise; the purchase fails iff that total exceeds the limit.
C9_DailyTotalBySameDate ==
    Has("cardPurchaseOfDay") =>
        LET last  == DateOfUnix(loc["cardPurchaseInfo"].unixInRecord)
            total == IF SameCalendarDate(loc["today"], last)
                     THEN loc["cardPurchaseInfo"].totalCardBoughtPerDay + loc["parsedAmount"]
                     ELSE loc["parsedAmount"]
        IN  /\ loc["cardPurchaseOfDay"] = total
            /\ (error.name = "DailyCardPurchaseLimitExceedError")
                    <=> (total > loc["cardConfig"].dailyCardBuyLimit)

\* C10: the balance check passes iff balance >= converted amount; when it fails the
\* invocation throws NotEnoughBalanceError carrying the current balance and the
\* required amount, and has issued no transaction.
C10_BalanceCheck ==
    Has("usdcBalance") =>
        IF loc["usdcBalance"] >= loc["parsedAmount"]
        THEN /\ error.name /= "NotEnoughBalanceError"
             /\ pc = "cardConfig"
        ELSE /\ pc = "error"
             /\ error.name = "NotEnoughBalanceError"
             /\ SameNumber(error.currentBalance,
                           [units |-> loc["usdcBalance"], decimals |-> loc["decimals"]])
             /\ SameNumber(error.requiredBalance,
                           [units |-> loc["parsedAmount"], decimals |-> loc["decimals"]])
             /\ NoTransfer
             /\ "cardConfig" \notin Ops

\* C10 witness: the balance is below the converted amount and the error carries both
C10_Witness ==
    /\ Has("usdcBalance")
    /\ 0 < loc["usdcBalance"]
    /\ loc["usdcBalance"] < loc["parsedAmount"]
    /\ error.name = "NotEnoughBalanceError"

\* the error is an instance of the class cls (errors.ts; the class
\* CardPurchaseAmountOutOfRangeError carries the name "BuyAmountOutOfRangeError")
IsInstanceOf(cls) == "class" \in DOMAIN error /\ error.class = cls

\* C11: once the card configuration is read, the invocation is rejected with
\* CardPurchaseAmountOutOfRangeError iff the converted amount is below min or above
\* max; an amount equal to min or to max passes the check; and on rejection neither
\* approve nor buyCardDirect was called and no further chain read was made.
C11_RangeCheck ==
    Has("cardConfig") =>
        LET a   == loc["parsedAmount"]
            min == loc["cardConfig"].minCardAmount
            max == loc["cardConfig"].maxCardAmount
        IN  /\ IsInstanceOf("CardPurchaseAmountOutOfRangeError") <=> (a < min \/ a > max)
            /\ (a < min \/ a > max) =>
                  /\ pc = "error"
                  /\ NoTransfer
                  /\ "cardPurchases" \notin Ops
                  /\ SameNumber(error.minRange, [units |-> min, decimals |-> loc["decimals"]])
                  /\ SameNumber(error.maxRange, [units |-> max, decimals |-> loc["decimals"]])
            /\ (min <= a /\ a <= max) =>
                  \/ pc = "cardPurchases"
                  \/ "cardPurchases" \in Ops

\* C11 witness: an amount equal to the minimum, below the maximum, passed the check
C11_Witness ==
    /\ Has("cardConfig")
    /\ loc["parsedAmount"] = loc["cardConfig"].minCardAmount
    /\ loc["parsedAmount"] < loc["cardConfig"].maxCardAmount
    /\ pc = "cardPurchases"

\* the operations of the log, in order
OpsInOrder == [i \in DOMAIN log |-> log[i].op]

\* a decimal amount (in thousandths) rounded to two decimal places
RoundToCents(a) ==
    CHOOSE n \in {10 * (a \div 10), 10 * (a \div 10) + 10} : a - n < 5 /\ n - a <= 5

\* the purchases made on today's calendar date, this purchase included
TrueDailyTotal ==
    IF SameCalendarDate(loc["today"], DateOfUnix(loc["cardPurchaseInfo"].unixInRecord))
    THEN loc["cardPurchaseInfo"].totalCardBoughtPerDay + loc["parsedAmount"]
    ELSE loc["parsedAmount"]

\* the conditions of the happy path, on the arguments and on every value read so far
HappyConditions ==
    /\ \A i \in DOMAIN log : log[i].res = "ok"
    /\ ~ProgramAbsent
    /\ Has("cardProgram") => loc["cardProgram"].id = params.cardProgramId
    /\ isEmailValid(params.recipient.emailAddress)
    /\ params.quote.token \in {"USDC", "Usdc", "usdc"}
    /\ params.quote.amountRequested = RoundToCents(params.amount)
    /\ Before(clock, MinusMs(params.quote.expiresIn, 20000))
    /\ Has("cardProgram") =>
          params.quote.targetCurrency \in loc["cardProgram"].availableCurrencies
    /\ Has("decimals") => FractionDigits(params.quote.totalPrice) <= loc["decimals"]
    /\ Has("usdcBalance") => loc["parsedAmount"] <= loc["usdcBalance"]
    /\ Has("cardConfig") =>
          /\ loc["cardConfig"].minCardAmount <= loc["parsedAmount"]
          /\ loc["parsedAmount"] <= loc["cardConfig"].maxCardAmount
    /\ Has("cardPurchaseInfo") => TrueDailyTotal <= loc["cardConfig"].dailyCardBuyLimit

\* the calls of a successful invocation, with and without the approval
CallsWithApproval ==
    <<"ping", "fetchZebecCardPrograms", "decimals", "balanceOf", "cardConfig",
      "cardPurchases", "allowance", "approve", "approve.wait", "buyCardDirect",
      "buyCardDirect.wait", "purchaseCard">>
CallsWithoutApproval ==
    <<"ping", "fetchZebecCardPrograms", "decimals", "balanceOf", "cardConfig",
      "cardPurchases", "allowance", "buyCardDirect", "buyCardDirect.wait", "purchaseCard">>

\* C12 (as claimed): while ping succeeded, the program is in the catalog, the email
\* is valid, the quote is for USDC, matches the amount rounded to two decimals, is
\* unexpired at every clock reading and its currency is offered, the converted amount
\* is representable, within [min, max] and within the balance, the total bought on
\* today's date with this purchase is within the daily limit, and every remote call
\* answered with a value, the invocation has not failed; and when it has ended it
\* returned the purchase receipt and the order detail after exactly one purchase and
\* one submission, preceded by at most one approval.
C12_HappyPath ==
    HappyConditions =>
        /\ pc /= "error"
        /\ pc = "done" =>
              /\ OpsInOrder \in {CallsWithApproval, CallsWithoutApproval}
              /\ result.receipt \in Receipts
              /\ result.orderDetail = [responseOf |-> Len(log)]

\* the step appends a call of op to the log
Appends(op) == Len(log') = Len(log) + 1 /\ log'[Len(log')].op = op

\* C13: the step that reads the allowance goes on to the approval iff the allowance
\* is strictly below the converted amount, and that approval is then submitted; an
\* approval is submitted only in an invocation whose allowance read was below the
\* converted amount, once, and for exactly the converted amount; and a purchase
\* call made without an approval follows an allowance read that was not below it.
C13_ConditionalApproval ==
    [][
        /\ (pc = "allowance" /\ Appends("allowance") /\ pc' /= "error") =>
              /\ pc' = (IF loc'["allowance"] < loc'["parsedAmount"] THEN "approve" ELSE "buy")
              /\ "approve" \notin Ops
        /\ pc = "approve" => Appends("approve")
        /\ Appends("approve") =>
              /\ Has("allowance")
              /\ loc["allowance"] < loc["parsedAmount"]
              /\ log'[Len(log')].arg.amount = loc["parsedAmount"]
              /\ "approve" \notin Ops
        /\ (Appends("buyCardDirect") /\ "approve" \notin Ops) =>
              /\ Has("allowance")
              /\ loc["allowance"] >= loc["parsedAmount"]
    ]_vars

\* C13 witness: an approval for the converted amount was submitted and the purchase
\* call followed it
C13_Witness ==
    /\ pc = "buyWait"
    /\ \E i \in Calls("approve") : log[i].arg.amount = loc["parsedAmount"] /\ log[i].res = "ok"

\* C14: the first call of an invocation is the ping and there is only one; when it
\* fails, whatever the cause, the invocation has ended with the "Card service is
\* down" error and the failed ping is the only call it made.
C14_PingFirstAndFatal ==
    /\ log /= <<>> => log[1].op = "ping"
    /\ Count("ping") <= 1
    /\ PingFailed =>
          /\ pc = "error"
          /\ error = [name |-> "Error", message |-> "Card service is down. Please try again later."]
          /\ Len(log) = 1

\* C14 witness: the ping failed for a reason other than an axios error
C14_Witness == PingFailed /\ log[1].cause = "other error" /\ pc = "error"

\* C15: an invocation fetches the catalog once, right after the ping and for the
\* recipient's countryCode, before any chain call; and when no program of the
\* fetched catalog has the id cardProgramId the invocation has failed with "Card
\* program not supported" having made no chain call and no order submission.
C15_ProgramValidation ==
    /\ \A i \in Calls("fetchZebecCardPrograms") :
          i = 2 /\ log[i].arg = params.recipient.countryCode
    /\ (Answered("ping", "ok") /\ pc /= "fetchPrograms") => Count("fetchZebecCardPrograms") = 1
    /\ ~NoChainCall => Answered("fetchZebecCardPrograms", "ok")
    /\ ProgramAbsent =>
          /\ pc = "error"
          /\ error = [name |-> "Error", message |-> "Card program not supported for user's region"]
          /\ NoChainCall
          /\ "purchaseCard" \notin Ops

\* C15 witness: the catalog of the region holds a program, but not the requested one
C15_Witness ==
    /\ ProgramAbsent
    /\ loc["cardProgramDetails"] /= <<>>
    /\ log[2].arg = "USA"
    /\ pc = "error"

\* the errors of the validation of recipient and quote (services.ts:316-335)
IsValidationError ==
    \/ error.name = "InvalidEmailError"
    \/ /\ error.name = "Error"
       /\ error.message \in
            {"Invalid Quote: Quote not for USDC",
             "Invalid Quote: Amount request and passed amount does not match",
             "Quote expired",
             "Invalid Quote: Target currency in quote not available in card program"}

\* C16: when the requested program was found in the catalog and its
\* availableCurrencies does not hold the quote's targetCurrency, the invocation has
\* failed with a validation error, having called neither approve nor buyCardDirect
\* nor any other chain operation; and when the checks before the currency check
\* passed, the error is the one of the currency check.
C16_CurrencyNotOffered ==
    /\ (Has("cardProgram")
            /\ params.quote.targetCurrency \notin loc["cardProgram"].availableCurrencies) =>
          /\ pc = "error"
          /\ IsValidationError
          /\ NoTransfer
          /\ NoChainCall
    /\ (CurrencyNotOffered /\ ~ExpiryCheckFails) =>
          error = [name |-> "Error",
                   message |-> "Invalid Quote: Target currency in quote not available in card program"]

\* C16 witness: the quote is in EUR, the program offers USD only, all earlier checks passed
C16_Witness ==
    /\ CurrencyNotOffered
    /\ ~ExpiryCheckFails
    /\ loc["cardProgram"].availableCurrencies = {"USD"}
    /\ params.quote.targetCurrency = "EUR"
    /\ pc = "error"

AmountMismatchError ==
    [name |-> "Error", message |-> "Invalid Quote: Amount request and passed amount does not match"]

\* C17: when quote.amountRequested differs from the amount rounded to two decimals,
\* an invocation that fetched the catalog has failed without any chain call, and
\* with the amount-mismatch error when program, email and token passed their checks;
\* when the two are equal the amount-mismatch error is never thrown.
C17_AmountMatch ==
    LET differs == params.quote.amountRequested /= RoundToCents(params.amount)
    IN  /\ (Answered("fetchZebecCardPrograms", "ok") /\ differs) =>
              /\ pc = "error"
              /\ NoChainCall
        /\ (Has("cardProgram") /\ isEmailValid(params.recipient.emailAddress)
                /\ params.quote.token \in {"USDC", "Usdc", "usdc"} /\ differs) =>
              error = AmountMismatchError
        /\ ~differs => error /= AmountMismatchError

\* C17 witness: amountRequested 1.00 against an amount of 1.006, which rounds to 1.01
C17_Witness ==
    /\ params.quote.amountRequested = 1000
    /\ params.amount = 1006
    /\ error = AmountMismatchError

\* the length of a string lies in lo..hi
Within(str, lo, hi) == lo <= Len(str) /\ Len(str) <= hi

\* the field bounds of a recipient, with the given upper bound for the state;
\* an address line 2 counts as present when it is given and not empty
FieldBoundsHold(a, stateMax) ==
    /\ Within(a.participantId, 1, 20) /\ isAlphaNumeric(a.participantId)
    /\ Within(a.firstName, 1, 50)
    /\ Within(a.lastName, 1, 50)
    /\ Within(a.emailAddress, 1, 80) /\ isEmailValid(a.emailAddress)
    /\ Within(a.mobilePhone, 1, 20)
    /\ Within(a.city, 1, 35)
    /\ Within(a.state, 1, stateMax)
    /\ Within(a.postalCode, 1, 20)
    /\ Within(a.address1, 1, 50)
    /\ (a.address2.given /\ a.address2.value /= "") => Within(a.address2.value, 1, 50)
    /\ IsSupportedCountry(a.countryCode)
    /\ a.language /= ""

\* C18 (as claimed): Recipient.create succeeds iff every field bound holds, the
\* state being of 1 to 20 characters, and otherwise throws ValidationError and
\* produces no Recipient.
C18_RecipientBounds ==
    pc /= "create" =>
        /\ pc = "created" <=> FieldBoundsHold(params, 20)
        /\ pc /= "created" => error.name = "ValidationError" /\ result = NoResult

\* C18 (amended): Recipient.create succeeds iff every field bound holds, the state
\* being of 1 to 50 characters, and then returns a Recipient holding the arguments
\* (address line 2 "N/A" when left out); otherwise it throws ValidationError and
\* produces no Recipient.
C18_RecipientBoundsStateFifty ==
    pc /= "create" =>
        /\ pc = "created" <=> FieldBoundsHold(params, 50)
        /\ pc = "created" =>
              /\ error = NoError
              /\ \A f \in ArgNames \ {"address2"} : result[f] = params[f]
              /\ result.address2 = (IF params.address2.given THEN params.address2.value ELSE "N/A")
        /\ pc /= "created" =>
              /\ pc = "rejected"
              /\ error.name = "ValidationError"
              /\ result = NoResult

\* C18 witness: a state of 21 characters, all other arguments valid, is accepted
C18_Witness ==
    /\ pc = "created"
    /\ Len(params.state) = 21
    /\ result.state = params.state

\* C19: the constructor yields a service iff the chain id is one of the seven
\* supported chains and sandbox is enabled exactly when the chain is Sepolia,
\* BscTestnet or PolygonAmoy; otherwise it throws and yields nothing.  A service
\* carries the chain and the sandbox setting it was built for.
C19_EnvironmentGating ==
    pc /= "construct" =>
        LET enabled   == params.sdkOptions.given /\ params.sdkOptions.sandbox = "true"
            supported == params.chainId \in {1, 11155111, 8453, 56, 97, 137, 80002}
            testnet   == params.chainId \in {11155111, 97, 80002}
        IN  /\ pc = "constructed" <=> (supported /\ (enabled <=> testnet))
            /\ pc = "constructed" =>
                  /\ error = NoError
                  /\ result.chainId = params.chainId
                  /\ result.sandbox = enabled
            /\ pc /= "constructed" =>
                  /\ pc = "rejected"
                  /\ error.name = "Error"
                  /\ result = NoResult

\* C19 witness: Sepolia with the sandbox option left unset is refused
C19_Witness ==
    /\ pc = "rejected"
    /\ params.chainId = 11155111
    /\ params.sdkOptions = [given |-> TRUE, sandbox |-> "undefined"]
    /\ error.message = "Only testnet chains are allowed in sandbox environment"

\* invocation p has submitted its purchase transaction
Submitted(p) == "buyCardResponse" \in DOMAIN loc[p]

\* C20: an invocation is never made to wait for the other: whatever the other does,
\* its next step can be taken; and a purchase it submits has passed the balance,
\* range and daily-limit checks on the values that invocation read itself, and on
\* nothing else.
C20_NoMutualExclusion ==
    \A p \in Invocations :
        /\ pc[p] \notin {"assemble", "error"} => ENABLED StepOf(p)
        /\ Submitted(p) =>
              /\ loc[p]["buyCardResponse"].amount = loc[p]["parsedAmount"]
              /\ loc[p]["parsedAmount"] <= loc[p]["usdcBalance"]
              /\ loc[p]["cardConfig"].minCardAmount <= loc[p]["parsedAmount"]
              /\ loc[p]["parsedAmount"] <= loc[p]["cardConfig"].maxCardAmount
              /\ loc[p]["cardPurchaseInfo"].totalCardBoughtPerDay + loc[p]["parsedAmount"]
                    <= loc[p]["cardConfig"].dailyCardBuyLimit

\* C20 witness: both invocations read the same balance and the same daily total,
\* both passed their checks and submitted a purchase; together the purchases exceed
\* the balance and the daily limit; one was mined and the other reverted.
C20_Witness ==
    /\ Submitted(1) /\ Submitted(2)
    /\ loc[1]["usdcBalance"] = loc[2]["usdcBalance"]
    /\ loc[1]["cardPurchaseInfo"] = loc[2]["cardPurchaseInfo"]
    /\ loc[1]["parsedAmount"] + loc[2]["parsedAmount"] > loc[1]["usdcBalance"]
    /\ loc[1]["cardPurchaseInfo"].totalCardBoughtPerDay
            + loc[1]["parsedAmount"] + loc[2]["parsedAmount"]
          > loc[1]["cardConfig"].dailyCardBuyLimit
    /\ pc[1] = "assemble"
    /\ pc[2] = "error" /\ error[2].name = "RemoteError"

\* invocation p has evaluated the daily-limit check
DailyChecked(p) == "cardPurchaseOfDay" \in DOMAIN loc[p]

\* the daily-limit check of invocation p failed
DailyCheckFailed(p) == pc[p] = "error" /\ error[p].name = "DailyCardPurchaseLimitExceedError"

\* no purchase has been mined: the purchase record on the chain is the one of the start
NoPurchaseMined == \A r \in Invocations : "buyCardReceipt" \notin DOMAIN loc[r]

\* C21: the daily-limit check is idempotent: two evaluations for the same amount,
\* with no purchase mined in between, read the same purchase record, compute the
\* same running total and take the same decision; and the record on the chain is
\* still the one they read.
C21_DailyCheckIdempotent ==
    \A p, q \in Invocations :
        (/\ DailyChecked(p) /\ DailyChecked(q)
         /\ loc[p]["parsedAmount"] = loc[q]["parsedAmount"]
         /\ NoPurchaseMined)
        => /\ loc[p]["cardPurchaseInfo"] = loc[q]["cardPurchaseInfo"]
           /\ loc[p]["cardPurchaseOfDay"] = loc[q]["cardPurchaseOfDay"]
           /\ DailyCheckFailed(p) <=> DailyCheckFailed(q)
           /\ chain.cardPurchases = loc[p]["cardPurchaseInfo"]

\* C21 witness: two evaluations for the same amount on a record of today with a
\* total above zero, both passing with the same running total above the amount
C21_Witness ==
    /\ DailyChecked(1) /\ DailyChecked(2)
    /\ NoPurchaseMined
    /\ loc[1]["parsedAmount"] = loc[2]["parsedAmount"]
    /\ loc[1]["cardPurchaseInfo"].totalCardBoughtPerDay > 0
    /\ loc[1]["cardPurchaseOfDay"] = loc[2]["cardPurchaseOfDay"]
    /\ loc[1]["cardPurchaseOfDay"] > loc[1]["parsedAmount"]
    /\ ~DailyCheckFailed(1) /\ ~DailyCheckFailed(2)

\* C22: the diagnostic mode does not alter the control flow: every step that runs
\* a diagnostic on a service with sandbox on is also a step of the invocation with
\* sandbox off: given the same answer of the remote party, it makes the same call
\* and leaves the same position, locals, error and result.
C22_DiagnosticsKeepControlFlow ==
    [][(pc \in DiagnosticSteps) => DiagnosticStepIn(~service.sandbox)]_vars

\* C22 witness: with sandbox on, the diagnostics of the approval wait ran on a
\* missing receipt, those of the catch block ran on a failed submission, and the
\* invocation went on to return
C22_Witness ==
    /\ service.sandbox = TRUE
    /\ Answered("approve.wait", "null")
    /\ Answered("purchaseCard", "fail")
    /\ pc = "done"

\* C23: a quote is used for a transfer only strictly before its expiry: once
\* buyCardDirect has been submitted, the last wall-clock reading the invocation
\* made before submitting it, which is no later than the moment of submission,
\* lies strictly before quote.expiresIn.
C23_TransferBeforeExpiry ==
    "buyCardDirect" \in Ops => Before(clock, params.quote.expiresIn)

\* C24: the on-chain steps are never repeated: an invocation submits at most one
\* approval and at most one purchase, both before the first submission of the
\* payload, whatever the reporting attempts do.
C24_ChainStepsOnce ==
    /\ Count("approve") <= 1
    /\ Count("approve.wait") <= 1
    /\ Count("buyCardDirect") <= 1
    /\ Count("buyCardDirect.wait") <= 1
    /\ \A i \in Calls("approve") \cup Calls("buyCardDirect"), j \in Submissions : i < j

\* C24 witness: all five submissions failed after an approval and a purchase
C24_Witness ==
    /\ Count("purchaseCard") = maxRetries
    /\ ~Answered("purchaseCard", "ok")
    /\ Count("approve") = 1
    /\ Count("buyCardDirect") = 1
    /\ pc = "error"

\* C25: the proof of payment is built once and every reporting attempt submits it:
\* each submission carries the payload the invocation holds, whose deposit names
\* the transaction and block hash of the purchase receipt, with the caller's
\* quote, program id and recipient and the signer's address; and the receipt
\* returned on success is that same purchase receipt.
C25_OnePayload ==
    /\ \A i \in Submissions :
          LET sent == log[i].arg
              deposit == sent.receipt.deposit
          IN  /\ sent = loc["payload"]
              /\ deposit.txHash = loc["buyCardReceipt"].hash
              /\ deposit.blockHash = loc["buyCardReceipt"].blockHash
              /\ deposit.buyerAddress = "signer.address"
              /\ deposit.userEmail = params.recipient.emailAddress
              /\ sent.receipt.quote = params.quote
              /\ sent.programId = params.cardProgramId
              /\ sent.recipient.emailAddress = params.recipient.emailAddress
    /\ pc = "done" =>
          /\ result.receipt = loc["buyCardReceipt"]
          /\ \A i \in Submissions : log[i].arg.receipt.deposit.txHash = result.receipt.hash

\* C25 witness: the invocation returned after three submissions, two of them failed
C25_Witness ==
    /\ pc = "done"
    /\ Count("purchaseCard") = 3
    /\ result.receipt.hash = "0xtx"

\* C26: when the daily-limit check fails, the error reports the configured limit
\* and the total of today before this purchase: the recorded total when the last
\* purchase counts as of today, and zero when the total was treated as reset.
C26_ReportsTotalBeforePurchase ==
    error.name = "DailyCardPurchaseLimitExceedError" =>
        LET last == DateOfUnix(loc["cardPurchaseInfo"].unixInRecord)
            before == IF areDatesOfSameDay(loc["today"], last)
                      THEN loc["cardPurchaseInfo"].totalCardBoughtPerDay
                      ELSE 0
        IN  /\ SameNumber(error.dailyLimit,
                          formatUnits(loc["cardConfig"].dailyCardBuyLimit, loc["decimals"]))
            /\ SameNumber(error.purchaseOfADay, formatUnits(before, loc["decimals"]))

\* the checks in the order of the source, and the number of remote calls the
\* invocation has made when each check is evaluated
CheckOrder == <<"ping", "program", "email", "token", "amount", "expiry", "currency",
                "balance", "range", "daily">>
CallsAt == <<1, 2, 2, 2, 2, 2, 2, 4, 5, 6>>

\* the error of the k-th check
ErrorOf(k) ==
    CASE k = 1 -> error.name = "Error" /\ error.message = "Card service is down. Please try again later."
      [] k = 2 -> error.name = "Error" /\ error.message = "Card program not supported for user's region"
      [] k = 3 -> error.name = "InvalidEmailError"
      [] k = 4 -> error.name = "Error" /\ error.message = "Invalid Quote: Quote not for USDC"
      [] k = 5 -> error.name = "Error"
                    /\ error.message = "Invalid Quote: Amount request and passed amount does not match"
      [] k = 6 -> error.name = "Error" /\ error.message = "Quote expired"
      [] k = 7 -> error.name = "Error"
                    /\ error.message = "Invalid Quote: Target currency in quote not available in card program"
      [] k = 8 -> error.name = "NotEnoughBalanceError"
      [] k = 9 -> error.name = "BuyAmountOutOfRangeError"
      [] k = 10 -> error.name = "DailyCardPurchaseLimitExceedError"

\* the k-th precondition is violated, on the arguments and on the values the
\* invocation holds
Violated(k) ==
    CASE k = 1 -> PingFailed
      [] k = 2 -> ProgramAbsent
      [] k = 3 -> EmailMalformed
      [] k = 4 -> TokenNotUsdc
      [] k = 5 -> AmountDiffers
      [] k = 6 -> ExpiryCheckFails
      [] k = 7 -> Has("cardProgramDetails") /\ Has("cardProgram")
                    /\ params.quote.targetCurrency \notin loc["cardProgram"].availableCurrencies
      [] k = 8 -> BalanceTooLow
      [] k = 9 -> OutsideRange
      [] k = 10 -> OverDailyLimit

\* C27: the checks take precedence in the order ping, program id, email, quote
\* token, quote amount, quote expiry, target currency, balance, range, daily limit:
\* the error of a check surfaces exactly when that check is the first one violated,
\* and then the invocation has made no remote call beyond those made when that
\* check is evaluated; in particular a quote expired and in a currency the program
\* does not offer fails with "Quote expired".
C27_CheckPrecedence ==
    /\ \A k \in DOMAIN CheckOrder :
          (pc = "error" /\ ErrorOf(k)) =>
              /\ Violated(k)
              /\ \A j \in 1..(k - 1) : ~Violated(j)
              /\ Len(log) = CallsAt[k]
    /\ \A k \in DOMAIN CheckOrder :
          Violated(k) => pc = "error" /\ \E j \in 1..k : ErrorOf(j)
    /\ (ExpiryCheckFails /\ Violated(7)) => ErrorOf(6)

\* C27 witness: the quote is expired and its currency is not offered by the
\* program, and the invocation failed with "Quote expired" after two remote calls
C27_Witness ==
    /\ ExpiryCheckFails
    /\ Violated(7)
    /\ pc = "error"
    /\ error.message = "Quote expired"
    /\ Len(log) = 2

\* the timer waits made so far, in order
Waits == [k \in 1..Count("setTimeout") |->
             log[CHOOSE i \in Calls("setTimeout") :
                     Cardinality({j \in Calls("setTimeout") : j <= i}) = k].arg]

\* C28: every failed reporting attempt, the fifth included, is followed by a
\* backoff wait before anything else happens: the wait is the next event after the
\* failure; when all five submissions have failed, five waits of 1, 2, 4, 8 and
\* 16 s have been made, the last of them after the last submission, and only then
\* does the invocation fail.
C28_WaitAfterEveryFailure ==
    /\ \A i \in Submissions :
          log[i].res = "fail" =>
              IF i = Len(log)
              THEN pc = "backoff"
              ELSE /\ log[i + 1].op = "setTimeout"
                   /\ log[i + 1].arg = 1000 * Pow2(AttemptNo(i) - 1)
    /\ (Count("purchaseCard") = maxRetries /\ ~Answered("purchaseCard", "ok") /\ pc /= "backoff") =>
          /\ Waits = <<1000, 2000, 4000, 8000, 16000>>
          /\ log[Len(log)].op = "setTimeout"
          /\ pc \in {"report", "error"}
    /\ (pc = "error" /\ Count("purchaseCard") >= 1) =>
          /\ Count("purchaseCard") = maxRetries
          /\ Count("setTimeout") = maxRetries

\* C28 witness: all five submissions failed, the wait of 16 s was made after the
\* fifth, and the invocation failed
C28_Witness ==
    /\ pc = "error"
    /\ Count("purchaseCard") = maxRetries
    /\ log[Len(log)] = Call("setTimeout", 16000, "ok")

\* the invocation has ended: it returned or it threw
Terminated == pc \in {"done", "error"}

\* C29: provided every remote call eventually returns or fails, every invocation
\* eventually terminates: it returns the receipt and the order detail, or raises
\* an error.
C29_Termination ==
    <>(\/ pc = "done" /\ result.receipt \in Receipts /\ error = NoError
       \/ pc = "error" /\ error /= NoError /\ result = NoResult)

\* C29 witness: the invocation ended with an error after the longest run, five
\* failed submissions and five waits following an approval and a purchase
C29_Witness ==
    /\ Terminated
    /\ Count("setTimeout") = maxRetries
    /\ Count("approve.wait") = 1
    /\ error.message = "Max retries reached"

\* the remote call that yields each value an invocation decides on
ReadBy ==
    [cardProgramDetails |-> "fetchZebecCardPrograms",
     cardProgram        |-> "fetchZebecCardPrograms",
     decimals           |-> "decimals",
     parsedAmount       |-> "decimals",
     usdcBalance        |-> "balanceOf",
     cardConfig         |-> "cardConfig",
     cardPurchaseInfo   |-> "cardPurchases",
     cardPurchaseOfDay  |-> "cardPurchases",
     allowance          |-> "allowance"]

\* the reads that precede a transfer
ReadsBeforeTransfer ==
    {"fetchZebecCardPrograms", "decimals", "balanceOf", "cardConfig", "cardPurchases", "allowance"}

\* C30: no state is carried across the invocations on one service instance: an
\* invocation starts with no locals, every value it holds was returned by a call
\* of that same invocation, a transfer is preceded in the same invocation by one
\* successful read of catalog, decimals, balance, card config, purchase record and
\* allowance, and the fields of the service stay what they were.
C30_NothingCarriedOver ==
    /\ service = ExampleService
    /\ pc = "ping" => loc = <<>> /\ log = <<>>
    /\ \A k \in DOMAIN loc \cap DOMAIN ReadBy : Answered(ReadBy[k], "ok")
    /\ \A i \in Calls("approve") \cup Calls("buyCardDirect") :
          \A op \in ReadsBeforeTransfer :
              /\ Count(op) = 1
              /\ \E j \in Calls(op) : j < i /\ log[j].res = "ok"

\* C30 witness: a later invocation on the instance, started after the clock had
\* moved on, has been answered by ping and holds no value of the previous one
C30_Witness ==
    /\ clock /= Instant(StartDay, 0)
    /\ pc = "fetchPrograms"
    /\ Ops = {"ping"}
    /\ loc = <<>>
    /\ service = ExampleService

\* the remote calls whose failure the code lets through
PropagatingOps ==
    {"fetchQuote", "fetchVault", "fetchZebecCardPrograms", "fetchOrders",
     "decimals", "balanceOf", "cardConfig", "cardPurchases", "allowance"}

\* C31: remote failures propagate unchanged: when the remote call of fetchQuote,
\* fetchVault, fetchZebecCardPrograms or fetchOrders fails, in sandbox or in
\* production mode, the caller gets the error that call threw, the call was made
\* once and no value is returned; and a failing program fetch or chain read ends
\* purchaseCardWithUsdc with the error that call threw.
C31_FailuresPropagate ==
    \A i \in DOMAIN log :
        (log[i].op \in PropagatingOps /\ log[i].res = "fail") =>
            /\ i = Len(log)
            /\ pc = "error"
            /\ error = RemoteError(log[i].op, i)
            /\ result = NoResult
            /\ Count(log[i].op) = 1

\* C31 witness: in production mode the request of fetchQuote failed without a
\* response and the caller got the error of the request
C31_Witness ==
    /\ service.sandbox = FALSE
    /\ params.method = "fetchQuote"
    /\ pc = "error"
    /\ log = <<[op |-> "fetchQuote",
                arg |-> [symbol |-> "USDC", amount |-> 1000, type |-> "EXACT_OUT"],
                res |-> "fail",
                cause |-> [axios |-> TRUE, response |-> "nullish"]]>>
    /\ error = RemoteError("fetchQuote", 1)

\* C32: the gas-limit override applies to both on-chain writes: the approval and
\* the purchase are each submitted with the caller's gas limit when one is given
\* and with the default gas limit when none is given.
C32_GasLimitOnBothWrites ==
    \A i \in Calls("approve") \cup Calls("buyCardDirect") :
        log[i].arg.gasLimit = gasLimitOf(params.overrides)

\* the purchase call of the log, once made
BuyCall == log[CHOOSE i \in Calls("buyCardDirect") : TRUE]

\* C33: the purchase is submitted with exactly the converted amount the checks
\* compared, which never changes once converted; with the tag "reloadable" when the
\* chosen program's type is "carbon" and "non_reloadable" otherwise; and with the
\* hash of the recipient's email address, the address later placed in the Deposit.
C33_PurchaseArguments ==
    [][/\ Has("parsedAmount") => loc'["parsedAmount"] = loc["parsedAmount"]
       /\ (pc = "buy") =>
             LET sent == log'[Len(log')]
             IN  /\ sent.op = "buyCardDirect"
                 /\ sent.arg.amount = loc["parsedAmount"]
                 /\ sent.arg.cardType = IF loc["cardProgram"].type = "carbon"
                                        THEN "reloadable" ELSE "non_reloadable"
                 /\ loc["cardProgram"].id = params.cardProgramId
                 /\ sent.arg.emailHash = <<"sha256", params.recipient.emailAddress>>
       /\ ("payload" \in DOMAIN loc') =>
             <<"sha256", loc'["payload"].receipt.deposit.userEmail>> = BuyCall'.arg.emailHash
      ]_vars

\* C33 witness: the purchase of a carbon program was submitted as reloadable, and
\* the payload holding the recipient's address has been built
C33_Witness ==
    /\ Has("payload")
    /\ params.cardProgramId = "carbon-1"
    /\ BuyCall.arg.cardType = "reloadable"
    /\ BuyCall.arg.emailHash = hashSHA256(loc["payload"].receipt.deposit.userEmail)

====
